---- MODULE Spec2Model ----
(***************************************************************************)
(* Model of grammersthon: the handler table (handler.rs), its dispatch     *)
(* algorithm Handlers::handle, and the event loop start_event_loop         *)
(* (lib.rs) that spawns one dispatch task per fetched update.              *)
(***************************************************************************)
EXTENDS Integers, Sequences, FiniteSets, TLC

(* ------------------------------ bounds --------------------------------- *)
\* Largest handler table the registration phase builds.
MaxHandlers == 2
\* Largest number of client.next_update calls the event loop issues.
MaxFetch == 2

(* ------------------------------ values --------------------------------- *)
\* Option<T>: None is the empty tuple, Some(v) the one-element tuple.
None == << >>
Some(v) == << v >>
IsSome(o) == Len(o) = 1

\* Message texts are sequences of characters.
TextX == << "x" >>
TextY == << "y" >>
TextSlashX == << "/", "x" >>

\* grammers Message, reduced to what dispatch reads: text() and media().
Msg(t, m) == [text |-> t, media |-> m]
Messages == { Msg(TextX, "none"), Msg(TextSlashX, "sticker"), Msg(TextY, "none") }

\* grammers Update: NewMessage(m), or any other update kind.
NewMessage(m) == [kind |-> "NewMessage", message |-> Some(m)]
OtherUpdate == [kind |-> "Other", message |-> None]
Updates == { NewMessage(m) : m \in Messages } \cup { OtherUpdate }

\* CloneSendSyncTypeMap of user data: one optional value per type.
DataTypes == { "T", "U" }
EmptyTypeMap == [ty \in DataTypes |-> None]
\* The values a program hands to add_data.
DataValues == { "v1", "v2" }

\* add_data that keeps a value already stored for the type.
add_data_keep(d, ty, value) ==
    IF IsSome(d[ty]) THEN d ELSE [d EXCEPT ![ty] = Some(value)]

\* Grammersthon::add_data::<T>(value): TypeMap::insert under the key Data<T>.
add_data(d, ty, value) == [d EXCEPT ![ty] = Some(value)]

\* HandlerResult values: Ok(()) or Err(e), e named after the function that made it.
Ok == "Ok"
HandlerErr == "Err(handler)"
InterceptorErr == "Err(interceptor)"
FallbackErr == "Err(fallback)"
ErrorHandlerErr == "Err(error_handler)"
FetchErr == "Err(next_update)"
MissingParameters == "Err(MissingParameters(Fallback handle function parameter))"
\* A future that never resolves.
Pending == "Pending"

(* ------------------------------ filters -------------------------------- *)
\* HandlerFilter::Regex(pattern) and HandlerFilter::Fn(closure).
FilterRegex(p) == [kind |-> "Regex", arg |-> p]
FilterFn(f) == [kind |-> "Fn", arg |-> << f >>]

\* Regex::new(p).is_match(text) for a pattern of literal characters: an
\* unanchored search, true iff p occurs in text.
RegexIsMatch(p, text) ==
    \E i \in 1..(Len(text) + 1) :
        /\ i + Len(p) - 1 <= Len(text)
        /\ SubSeq(text, i, i + Len(p) - 1) = p

\* Regex::new(p) is Ok: of the characters of the model only "(" is not a
\* literal, and it opens a group that nothing closes.
RegexNewOk(p) == \A i \in 1..Len(p) : p[i] # "("

\* The closures registered as Fn filters, applied to (&Message, &HandlerData).
FnFilterCall(f, message, data) ==
    CASE f = "always" -> TRUE
      [] f = "has_media" -> message.media # "none"
      [] f = "data_has_media" -> data.message.media # "none"
      [] OTHER -> FALSE

\* The pattern mutator closure: pattern -> compiled regex (its literal).
\* "slash" is the closure of examples/basic.rs, "bang" one like it.
MutatorCall(mutator, p) ==
    CASE mutator = "slash" -> << "/" >> \o p
      [] mutator = "bang" -> << "!" >> \o p
      [] OTHER -> p

\* is_match compiling the raw pattern whether or not a mutator is set.
is_match_raw(filter, message, mutator, data) ==
    IF filter.kind = "Regex"
    THEN RegexIsMatch(filter.arg, message.text)
    ELSE FnFilterCall(filter.arg[1], message, data)

is_match(filter, message, mutator, data) ==
    IF filter.kind = "Regex"
    THEN IF IsSome(mutator)
         THEN RegexIsMatch(MutatorCall(mutator[1], filter.arg), message.text)
         ELSE RegexIsMatch(filter.arg, message.text)
    ELSE FnFilterCall(filter.arg[1], message, data)

(* --------------------------- argument parser --------------------------- *)
\* Strings are sequences of characters. char::is_whitespace, for the
\* characters of the model.
IsWhitespace(c) == c \in { " ", "\t", "\n" }

\* str::trim_start, str::trim_end and str::trim.
RECURSIVE TrimStart(_)
TrimStart(str) ==
    IF str # << >> /\ IsWhitespace(Head(str)) THEN TrimStart(Tail(str)) ELSE str

RECURSIVE TrimEnd(_)
TrimEnd(str) ==
    IF str # << >> /\ IsWhitespace(str[Len(str)])
    THEN TrimEnd(SubSeq(str, 1, Len(str) - 1)) ELSE str

Trim(str) == TrimEnd(TrimStart(str))

\* The `for c in &mut chars` loop of parse_n from character i on, with the
\* arguments pushed so far and the argument being built: where it stops.
\* next is the first character the iterator has not consumed yet.
RECURSIVE parse_n_loop(_, _, _, _, _)
parse_n_loop(str, n, i, args, arg) ==
    IF i > Len(str) THEN [args |-> args, arg |-> arg, next |-> i]
    ELSE IF str[i] = " "
         THEN IF arg # << >>
              THEN IF Len(args) + 1 = n
                   THEN [args |-> Append(args, Trim(arg)), arg |-> << >>, next |-> i + 1]
                   ELSE parse_n_loop(str, n, i + 1, Append(args, Trim(arg)), << >>)
              ELSE parse_n_loop(str, n, i + 1, args, arg)
         ELSE parse_n_loop(str, n, i + 1, args, Append(arg, str[i]))

\* The rest with the spaces that follow the last delimiter dropped.
parse_n_rest_skipping(str, next) ==
    TrimStart(SubSeq(str, next, Len(str)))

\* `chars.collect::<String>()`: what the iterator has not consumed.
parse_n_rest(str, next) == SubSeq(str, next, Len(str))

\* parse_n after the loop: the argument still being built is pushed as it is.
parse_n_split(str, n) ==
    LET end == parse_n_loop(str, n, 1, << >>, << >>)
    IN [ args |-> IF end.arg # << >> THEN Append(end.args, end.arg) ELSE end.args,
         rest |-> parse_n_rest(str, end.next) ]

\* parse_n without its `count == 0` case.
parse_n_always_split(str, n) == parse_n_split(str, n)

\* RawArgs::parse_n(input, count) -> (RawArgs, String)
parse_n(str, n) ==
    IF n = 0 THEN [args |-> << >>, rest |-> str] ELSE parse_n_split(str, n)

\* str::split(" "): the pieces between single spaces, empty ones included.
RECURSIVE split(_, _)
split(str, piece) ==
    IF str = << >> THEN << piece >>
    ELSE IF Head(str) = " " THEN << piece >> \o split(Tail(str), << >>)
         ELSE split(Tail(str), Append(piece, Head(str)))

\* Result<T, GrammersthonError>; the only error the parser makes is
\* Parse(String, Option<cause>).
ResultOk(v) == [ok |-> TRUE, val |-> << v >>, err |-> << >>]
ParseErr(str, cause) == [ok |-> FALSE, val |-> << >>, err |-> << str, cause >>]

\* parse_arg without its filter: every piece is kept.
RawArgs_parse_arg_unfiltered(str) ==
    LET pieces == split(str, << >>)
    IN ResultOk([k \in 1..Len(pieces) |-> Trim(pieces[k])])

\* <RawArgs as FromArgs>::parse_arg: split on " ", drop the pieces that
\* trim to nothing, trim the others.
RawArgs_parse_arg(str) ==
    LET Kept(piece) == Trim(piece) # << >>
        pieces == SelectSeq(split(str, << >>), Kept)
    IN ResultOk([k \in 1..Len(pieces) |-> Trim(pieces[k])])

\* u32::from_str, as `input.parse::<u32>()` calls it: an optional "+",
\* then one or more decimal digits, the value at most u32::MAX. The value
\* is kept as its decimal digits without leading zeros.
Digits == << "0", "1", "2", "3", "4", "5", "6", "7", "8", "9" >>
IsDigit(c) == \E d \in 1..10 : Digits[d] = c
DigitValue(c) == (CHOOSE d \in 1..10 : Digits[d] = c) - 1
U32Max == << "4", "2", "9", "4", "9", "6", "7", "2", "9", "5" >>

RECURSIVE U32(_)
U32(digits) ==
    IF Len(digits) > 1 /\ Head(digits) = "0" THEN U32(Tail(digits)) ELSE digits

\* The value of the digits is at most u32::MAX.
FitsU32(digits) ==
    LET v == U32(digits)
    IN \/ Len(v) < Len(U32Max)
       \/ /\ Len(v) = Len(U32Max)
          /\ \/ v = U32Max
             \/ \E i \in 1..Len(v) :
                    /\ SubSeq(v, 1, i - 1) = SubSeq(U32Max, 1, i - 1)
                    /\ DigitValue(v[i]) < DigitValue(U32Max[i])

u32_from_str(str) ==
    LET digits == IF str # << >> /\ Head(str) = "+" THEN Tail(str) ELSE str
    IN IF /\ digits # << >>
          /\ \A i \in 1..Len(digits) : IsDigit(digits[i])
          /\ FitsU32(digits)
       THEN ResultOk(U32(digits))
       ELSE ParseErr(str, "Some")

\* <Vec<T> as FromArgs>::parse_arg from part k on: each part of
\* RawArgs::parse_arg is parsed as T, the first failure is returned.
RECURSIVE Vec_u32_parts(_, _)
Vec_u32_parts(parts, k) ==
    IF k > Len(parts) THEN ResultOk(<< >>)
    ELSE LET part == u32_from_str(parts[k])
         IN IF ~part.ok THEN part
            ELSE LET others == Vec_u32_parts(parts, k + 1)
                 IN IF ~others.ok THEN others
                    ELSE ResultOk(<< part.val[1] >> \o others.val[1])

\* str::to_lowercase on the letters of the model: an uppercase letter
\* becomes its lowercase one, every other character stays.
Uppercase == << "A", "E", "I", "K", "L", "P", "S", "U", "Y" >>
Lowercase == << "a", "e", "i", "k", "l", "p", "s", "u", "y" >>
char_to_lowercase(c) ==
    IF \E n \in 1..Len(Uppercase) : Uppercase[n] = c
    THEN Lowercase[CHOOSE n \in 1..Len(Uppercase) : Uppercase[n] = c]
    ELSE c
to_lowercase(str) == [i \in 1..Len(str) |-> char_to_lowercase(str[i])]

\* An enum of unit variants that derives FromArgs: its variant names in
\* declaration order and whether it carries #[ignore_case].
Enum(name, variants, ignore_case) ==
    [name |-> name, variants |-> variants, ignore_case |-> ignore_case]

\* The arms of the generated match from arm i on: the first arm whose
\* string literal equals the scrutinee returns its variant, `_` returns
\* Err(Parse(input, None)).
RECURSIVE match_arms(_, _, _, _, _)
match_arms(enum, options, scrutinee, str, i) ==
    IF i > Len(options) THEN ParseErr(str, "None")
    ELSE IF options[i] = scrutinee THEN ResultOk(enum.variants[i])
         ELSE match_arms(enum, options, scrutinee, str, i + 1)

\* An #[ignore_case] enum whose variant names are left as they are written.
from_args_enum_input_only(enum, str) ==
    match_arms(enum, enum.variants,
               IF enum.ignore_case THEN to_lowercase(str) ELSE str, str, 1)

\* from_args_enum: the parse_arg that derive(FromArgs) generates for an
\* enum. With #[ignore_case] the variant names are lowercased when the
\* code is generated and the input when it is parsed.
from_args_enum(enum, str) ==
    LET options == [i \in 1..Len(enum.variants) |->
                        IF enum.ignore_case THEN to_lowercase(enum.variants[i])
                        ELSE enum.variants[i]]
        scrutinee == IF enum.ignore_case THEN to_lowercase(str) ELSE str
    IN match_arms(enum, options, scrutinee, str, 1)

\* Enums that derive FromArgs: Action of examples/args.rs, the same enum
\* without #[ignore_case], and two whose variant names differ in case only.
Play == << "P", "l", "a", "y" >>
Pause == << "P", "a", "u", "s", "e" >>
Skip == << "S", "k", "i", "p" >>
Action == Enum("Action", << Play, Pause, Skip >>, TRUE)
ActionExact == Enum("ActionExact", << Play, Pause, Skip >>, FALSE)
Volume == Enum("Volume", << << "U", "p" >>, << "U", "P" >>, << "u", "p" >> >>, TRUE)
VolumeExact == Enum("VolumeExact", << << "U", "p" >>, << "U", "P" >>, << "u", "p" >> >>, FALSE)
Enums == { Action, ActionExact, Volume, VolumeExact }

\* FromArgs::parse_arg of the field types: String, the primitives of
\* from_args_parse! (u32 here), Vec<T> (Vec<u32> here) and the derived
\* enums.
parse_arg(ty, str) ==
    CASE ty = "String" -> ResultOk(str)
      [] ty = "u32" -> u32_from_str(str)
      [] ty = "Vec<u32>" -> Vec_u32_parts(RawArgs_parse_arg(str).val[1], 1)
      [] ty = "Action" -> from_args_enum(Action, str)
      [] ty = "Volume" -> from_args_enum(Volume, str)

\* A struct that derives FromArgs: its field types in declaration order and
\* whether its last field carries #[rest].
Struct(name, fields, rest) == [name |-> name, fields |-> fields, rest |-> rest]

\* The derive taking every field, a #[rest] one too, from a token.
field_count_all(struct) == Len(struct.fields)

\* from_args_named_fields and from_args_unnamed_fields: the count they
\* return, one less than the fields when the last one is #[rest].
field_count(struct) ==
    IF struct.rest THEN Len(struct.fields) - 1 ELSE Len(struct.fields)

\* The generated field initialisers from field i on, each ending in `?`:
\* the #[rest] field parses `rest`, every other field i parses args.0[i].
RECURSIVE derive_fields(_, _, _, _)
derive_fields(struct, args, rest, i) ==
    IF i > Len(struct.fields) THEN ResultOk(<< >>)
    ELSE LET field == IF i = Len(struct.fields) /\ struct.rest
                      THEN parse_arg(struct.fields[i], rest)
                      ELSE parse_arg(struct.fields[i], args[i])
         IN IF ~field.ok THEN field
            ELSE LET others == derive_fields(struct, args, rest, i + 1)
                 IN IF ~others.ok THEN others
                    ELSE ResultOk(<< field.val[1] >> \o others.val[1])

\* The body with the last field taken from `rest` whether or not it
\* carries #[rest].
derive_out_rest_last(struct, args, rest) ==
    derive_fields([struct EXCEPT !.rest = TRUE], args, rest, 1)

\* The body the derive generates: Ok(Name(field, ...)).
derive_out(struct, args, rest) == derive_fields(struct, args, rest, 1)

\* The parse_arg that derive(FromArgs) generates for a struct.
derive_parse_arg(struct, str) ==
    LET parsed == parse_n(str, field_count(struct))
    IN IF Len(parsed.args) < field_count(struct)
       THEN ParseErr(str, "None")
       ELSE derive_out(struct, parsed.args, parsed.rest)

\* Structs that derive FromArgs: Name and RepeatArgs of examples/args.rs,
\* a one-field #[rest] struct like its Sum, one with two tokens before
\* the #[rest] field, and one without #[rest].
Name == Struct("Name", << "String" >>, FALSE)
RepeatArgs == Struct("RepeatArgs", << "u32", "String" >>, TRUE)
Numbers == Struct("Numbers", << "Vec<u32>" >>, TRUE)
Triple == Struct("Triple", << "u32", "u32", "String" >>, TRUE)
\* A struct of two fields, none of them #[rest].
Pair == Struct("Pair", << "u32", "String" >>, FALSE)
\* A struct whose only field takes the whole argument text.
Echo == Struct("Echo", << "String" >>, TRUE)
\* ActionArgs of examples/args.rs, the one-field wrapper of the enum, and
\* the same wrapper of Volume.
ActionArgs == Struct("ActionArgs", << "Action" >>, FALSE)
VolumeArgs == Struct("VolumeArgs", << "Volume" >>, FALSE)
Structs == { Name, RepeatArgs, Numbers, Triple, Pair, Echo }

\* is_match panics: `Regex::new(&r).unwrap()` on a pattern that does not
\* compile, or the unwrap inside the mutator closure, which compiles the
\* pattern it built (examples/basic.rs).
unwrap_panics(filter, mutator) ==
    /\ filter.kind = "Regex"
    /\ IF IsSome(mutator) THEN ~RegexNewOk(MutatorCall(mutator[1], filter.arg))
       ELSE ~RegexNewOk(filter.arg)

(* ----------------------------- extraction ------------------------------ *)
\* str::find(" "): Some(index of the first space), None without one.
find(str) ==
    IF \E i \in 1..Len(str) : str[i] = " "
    THEN Some(CHOOSE i \in 1..Len(str) :
                /\ str[i] = " "
                /\ \A k \in 1..(i - 1) : str[k] # " ")
    ELSE None

\* The type A of a parameter type Args<A>: a struct or an enum that
\* derives FromArgs.
ArgsTarget(ty) ==
    CASE ty = "Args<Name>" -> Name
      [] ty = "Args<RepeatArgs>" -> RepeatArgs
      [] ty = "Args<Numbers>" -> Numbers
      [] ty = "Args<Echo>" -> Echo
      [] ty = "Args<ActionArgs>" -> ActionArgs
      [] ty = "Args<VolumeArgs>" -> VolumeArgs
      [] ty = "Args<Action>" -> Action
      [] ty = "Args<Volume>" -> Volume

\* A::parse_arg with an enum's match taking the trimmed input.
FromArgs_parse_arg_trimmed(A, str) ==
    IF "variants" \in DOMAIN A THEN from_args_enum(A, Trim(str))
    ELSE derive_parse_arg(A, str)

\* A::parse_arg of a derived A: the impl generated for Data::Struct or
\* the one generated for Data::Enum.
FromArgs_parse_arg(A, str) ==
    IF "variants" \in DOMAIN A THEN from_args_enum(A, str)
    ELSE derive_parse_arg(A, str)

\* Result::ok: Some(v) of Ok(v), None of Err(e).
Result_ok(result) == IF result.ok THEN Some(result.val[1]) ELSE None

\* Args<A>::from_data propagating nothing: a text without a space is
\* parsed as the empty argument text.
Args_from_data_lenient(struct, data) ==
    LET text == data.message.text
        i == find(text)
        parsed == derive_parse_arg(struct, IF i = None THEN << >>
                                           ELSE SubSeq(text, i[1], Len(text)))
    IN IF parsed.ok THEN Some(parsed.val[1]) ELSE Some(<< >>)

\* <Args<A> as FromHandlerData>::from_data. `data.text` is the text of
\* data's message; `&data.text[i..]` starts at the space found. Both `?`
\* return None: no space in the text, or parse_arg returned Err.
Args_from_data(struct, data) ==
    LET text == data.message.text
        i == find(text)
    IN IF i = None THEN None
       ELSE Result_ok(FromArgs_parse_arg(struct, SubSeq(text, i[1], Len(text))))

\* <RawArgs as FromHandlerData>::from_data: without a space the default,
\* empty RawArgs.
RawArgs_from_data(data) ==
    LET text == data.message.text
        i == find(text)
    IN IF i = None THEN Some(<< >>)
       ELSE Result_ok(RawArgs_parse_arg(SubSeq(text, i[1], Len(text))))

\* FromHandlerData::from_data for one parameter type.
from_data(ty, data) ==
    CASE ty = "Client" -> Some("client")
      [] ty = "Message" -> Some(data.message)
      [] ty = "String" -> Some(data.message.text)
      [] ty = "Media" -> IF data.message.media = "none" THEN None
                         ELSE Some(data.message.media)
      [] ty = "Sticker" -> IF data.message.media = "sticker" THEN Some("sticker")
                           ELSE None
      [] ty = "Me" -> Some(data.me)
      [] ty = "Data<T>" -> data.data["T"]
      [] ty = "Data<U>" -> data.data["U"]
      [] ty = "RawArgs" -> RawArgs_from_data(data)
      [] ty \in { "Args<Name>", "Args<RepeatArgs>", "Args<Numbers>", "Args<Echo>",
                   "Args<ActionArgs>", "Args<VolumeArgs>", "Args<Action>",
                   "Args<Volume>" } ->
            Args_from_data(ArgsTarget(ty), data)
      [] OTHER -> None

\* The largest tuple FromHandlerData and Handler are implemented for.
MaxParams == 8

\* `Some(($($param::from_data(data)?,)*))` from member k on: the members
\* are extracted left to right and the first absent one returns None.
RECURSIVE from_data_members(_, _, _)
from_data_members(sig, data, k) ==
    IF k > Len(sig) THEN Some(<< >>)
    ELSE LET member == from_data(sig[k], data)
         IN IF member = None THEN None
            ELSE LET rest == from_data_members(sig, data, k + 1)
                 IN IF rest = None THEN None
                    ELSE Some(<< member[1] >> \o rest[1])

\* A tuple impl that extracts its first member only.
from_data_tuple_first(sig, data) ==
    IF sig = << >> THEN Some(<< >>)
    ELSE LET member == from_data(sig[1], data)
         IN IF member = None THEN None ELSE Some(<< member[1] >>)

\* from_data of a tuple of parameter types.
from_data_tuple(sig, data) == from_data_members(sig, data, 1)

\* box_handler without the `?` on from_data: the handler always runs.
box_handler_call_unchecked(handler, data) == TRUE

\* Handlers::box_handler: the boxed closure of a handler function, applied
\* to data: Some(future) iff the handler's parameter tuple extracts.
box_handler_call(handler, data) == IsSome(from_data_tuple(handler.sig, data))

(* --------------------------- handler table ----------------------------- *)
Fn(name, sig) == [name |-> name, sig |-> sig]

\* A default message fallback that declares a parameter not every message has.
default_message_fallback_media == Fn("default_message_fallback_handler", << "Media" >>)

default_message_fallback_handler == Fn("default_message_fallback_handler", << "String" >>)

HandlerWrap(filters, handler) == [filters |-> filters, handler |-> handler]

\* Handlers::new
HandlersNew ==
    [ handlers |-> << >>,
      message_fallback |-> default_message_fallback_handler,
      fallback |-> "default",
      error |-> "default",
      pattern_mutator |-> None,
      interceptor |-> None ]

\* Handlers::add
add(h, filters, handler) ==
    [h EXCEPT !.handlers = Append(@, HandlerWrap(filters, handler))]


\* The registration methods of impl Grammersthon, as functions of the table.
add_handler(h, entry) == add(h, entry.filters, entry.handler)
message_fallback_handler(h, handler) == [h EXCEPT !.message_fallback = handler]
fallback_handler(h) == [h EXCEPT !.fallback = "user"]
error_handler(h) == [h EXCEPT !.error = "user"]
interceptor(h) == [h EXCEPT !.interceptor = Some("interceptor")]

\* pattern_mutator keeping a mutator that is already set.
pattern_mutator_keep(h, mutator) ==
    IF IsSome(h.pattern_mutator) THEN h ELSE [h EXCEPT !.pattern_mutator = Some(mutator)]

pattern_mutator(h, mutator) == [h EXCEPT !.pattern_mutator = Some(mutator)]

(* ------------------------------ dispatch ------------------------------- *)
\* One observable call made while an update is dispatched. args holds the
\* arguments of a call where a property reads them.
Call(c, i, j, e) == [call |-> c, idx |-> i, sub |-> j, err |-> e, args |-> << >>]
CallFilter(i, j) == Call("filter", i, j, "")
CallExtract(i) == Call("extract", i, 0, "")
CallHandler(i) == Call("handler", i, 0, "")
CallMessageFallback == Call("message_fallback", 0, 0, "")
CallFallback == Call("fallback", 0, 0, "")
CallInterceptor == Call("interceptor", 0, 0, "")
\* `(*handlers.error)(e, client)` in the spawned task.
CallError(e) == [Call("error", 0, 0, e) EXCEPT !.args = << e, "client" >>]
LogError(e) == Call("error!", 0, 0, e)
\* The future awaited at `pc` (of entry i, for a handler) resolved to r.
Ret(pc, i, r) == Call(pc \o ".ret", i, 0, r)

\* HandlerData built by handle from its arguments.
HandlerData(message, data) ==
    [client |-> "client", message |-> message, me |-> "me", data |-> data]

\* Iterator::all over the filter-set from position j: a left-to-right fold
\* that stops at the first filter that does not match. `ran` counts the
\* filters evaluated.
RECURSIVE iter_all(_, _, _, _, _)
iter_all(filters, message, mutator, data, j) ==
    IF j > Len(filters) THEN [matched |-> TRUE, ran |-> j - 1]
    ELSE IF is_match(filters[j], message, mutator, data)
         THEN iter_all(filters, message, mutator, data, j + 1)
         ELSE [matched |-> FALSE, ran |-> j]

\* Iterator::any in place of Iterator::all.
any_match(filters, message, mutator, data) ==
    \E j \in 1..Len(filters) : is_match(filters[j], message, mutator, data)

\* handler.filters.iter().all(|f| f.is_match(&message, &self.pattern_mutator, &data))
all_match(filters, message, mutator, data) ==
    iter_all(filters, message, mutator, data, 1).matched

\* The filter evaluations that call makes for entry i.
filters_run(i, filters, message, mutator, data) ==
    [j \in 1..iter_all(filters, message, mutator, data, 1).ran |-> CallFilter(i, j)]

\* The handler loop as it would be without the early return: the last entry
\* that matches and extracts wins.
RECURSIVE find_handler_last(_, _, _, _)
find_handler_last(h, message, data, i) ==
    IF i > Len(h.handlers) THEN [idx |-> 0, log |-> << >>]
    ELSE LET entry == h.handlers[i]
             ran == filters_run(i, entry.filters, message, h.pattern_mutator, data)
             matched == all_match(entry.filters, message, h.pattern_mutator, data)
             rest == find_handler_last(h, message, data, i + 1)
             tried == ran \o (IF matched THEN << CallExtract(i) >> ELSE << >>)
         IN IF rest.idx > 0 THEN [idx |-> rest.idx, log |-> tried \o rest.log]
            ELSE IF matched /\ box_handler_call(entry.handler, data)
                 THEN [idx |-> i, log |-> tried \o << CallHandler(i) >>]
                 ELSE [idx |-> 0, log |-> tried \o rest.log]

\* The `for handler in &self.handlers` loop of handle: the entry whose future
\* is awaited (0 if the loop falls through) and the calls made on the way.
RECURSIVE find_handler(_, _, _, _)
find_handler(h, message, data, i) ==
    IF i > Len(h.handlers) THEN [idx |-> 0, log |-> << >>]
    ELSE LET entry == h.handlers[i]
             ran == filters_run(i, entry.filters, message, h.pattern_mutator, data)
             matched == all_match(entry.filters, message, h.pattern_mutator, data)
         IN IF matched /\ box_handler_call(entry.handler, data)
            THEN [idx |-> i, log |-> ran \o << CallExtract(i), CallHandler(i) >>]
            ELSE LET rest == find_handler(h, message, data, i + 1)
                 IN [idx |-> rest.idx,
                     log |-> ran \o (IF matched THEN << CallExtract(i) >> ELSE << >>)
                                 \o rest.log]


(* ------------------------------- state --------------------------------- *)
\* The setter arguments a table's slots show: None for a slot at its default.
SetBy(h) ==
    [ message_fallback |-> IF h.message_fallback = default_message_fallback_handler
                           THEN None ELSE Some(h.message_fallback),
      fallback |-> IF h.fallback = "default" THEN None ELSE Some(h.fallback),
      error |-> IF h.error = "default" THEN None ELSE Some(h.error),
      interceptor |-> IF h.interceptor = None THEN None ELSE Some("interceptor"),
      pattern_mutator |-> h.pattern_mutator ]

\* No parser function has been applied.
NoCall == [fn |-> "", ty |-> << >>, val |-> << >>]

VARIABLES
    handlers,   \* Grammersthon.handlers: the Handlers table
    data,       \* Grammersthon.data: the user-data type map
    loop,       \* where start_event_loop is: "setup" (not called yet), "top"
                \* (about to call next_update), "awaiting" (next_update
                \* pending) or "returned"
    ret,        \* Option of the value start_event_loop returned
    ncalls,     \* number of client.next_update calls issued so far
    fetched,    \* what those calls returned, in order: Some(update) or None
    tasks,      \* the tokio tasks spawned so far, in spawn order
    last_data,  \* history: per type, Option of the value of the most recent
                \* add_data call for it
    last_set,   \* history: per slot of the table, Option of the argument of
                \* the most recent call of its setter
    mutator_at, \* history: the number of entries the table held when
                \* pattern_mutator was last called, -1 if it never was
    input,      \* the &str handed to the argument parser (args.rs)
    count,      \* the usize handed to RawArgs::parse_n
    output      \* the parser function last applied to them and its value

vars == << handlers, data, loop, ret, ncalls, fetched, tasks,
           last_data, last_set, mutator_at, input, count, output >>

\* The event loop running the interceptor itself before it spawns the task.
SpawnedIntercepted(update, h, d) ==
    [ update |-> update, handlers |-> h, data |-> d, pc |-> "spawned",
      hd |-> None, idx |-> 0, fut |-> "", result |-> None,
      log |-> IF update.kind = "NewMessage" /\ IsSome(h.interceptor)
              THEN << CallInterceptor >> ELSE << >> ]

\* A task as tokio::task::spawn receives it: the update and the clones made
\* in start_event_loop, not polled yet.
Spawned(update, h, d) ==
    [ update |-> update, handlers |-> h, data |-> d,
      pc |-> "spawned",     \* the await the task is suspended at
      hd |-> None,          \* the HandlerData of handle, once built
      idx |-> 0,            \* the entry whose future handle awaits
      fut |-> "",           \* "Ready" or Pending: whether that future resolves
      result |-> None,      \* Option of what handle returned
      log |-> << >> ]       \* the calls made so far

\* The future of the message fallback: the body of the default one holds
\* no await, so it resolves; a user's resolves or not, as f tells.
FallbackFuture(fallback, f) ==
    IF fallback = default_message_fallback_handler THEN "Ready" ELSE f

\* The future the task awaits resolved to r.
Resolved(task, r) == [task EXCEPT !.log = Append(@, Ret(task.pc, task.idx, r))]

\* The spawned task dropping the value handle returned.
ReturnedUnrouted(task, res) == [task EXCEPT !.pc = "done", !.result = Some(res)]

\* lib.rs match on the value handle returned: Ok ends the task, Err(e) makes
\* it call the error handler with (e, client) and await it.
Returned(task, res) ==
    IF res = Ok
    THEN [task EXCEPT !.pc = "done", !.result = Some(res)]
    ELSE [task EXCEPT !.pc = "error", !.result = Some(res),
                      !.log = Append(@, CallError(res))]

\* handle ending with Ok(()) where the message fallback does not extract.
RoutedNoMissing(task, hd, f) ==
    LET h == task.handlers
        found == find_handler(h, task.update.message[1], hd, 1)
        t1 == [task EXCEPT !.hd = Some(hd), !.log = @ \o found.log]
    IN IF found.idx > 0
       THEN [t1 EXCEPT !.pc = "handler", !.idx = found.idx, !.fut = f]
       ELSE IF box_handler_call(h.message_fallback, hd)
            THEN [t1 EXCEPT !.pc = "message_fallback",
                            !.fut = FallbackFuture(h.message_fallback, f),
                            !.log = Append(@, CallMessageFallback)]
            ELSE Returned(t1, Ok)

\* The filters handed the message of the interceptor's HandlerData.
filter_message_context(task, hd) == hd.message

\* `&message` of the handler loop: the message taken out of the update,
\* which `data = (*interceptor)(data).await?` does not touch.
filter_message(task, hd) == task.update.message[1]

\* The position in the calls of the handler loop of the first filter
\* evaluation that panics, 0 if none does.
first_panic(h, log) ==
    LET panics == { n \in 1..Len(log) :
                        /\ log[n].call = "filter"
                        /\ unwrap_panics(h.handlers[log[n].idx].filters[log[n].sub],
                                         h.pattern_mutator) }
    IN IF panics = { } THEN 0
       ELSE CHOOSE n \in panics : \A k \in panics : n <= k

\* handle from the handler loop on, with HandlerData hd: await the first
\* entry that matches and extracts, else the message fallback, else return
\* MissingParameters. f tells whether the awaited future ever resolves.
\* A filter evaluation that panics unwinds the task there and then.
\* `found` is what the handler loop came to.
RoutedTo(task, hd, f, found) ==
    LET h == task.handlers
        panic == first_panic(h, found.log)
        t1 == [task EXCEPT !.hd = Some(hd), !.log = @ \o found.log]
    IN IF panic > 0
       THEN [task EXCEPT !.hd = Some(hd), !.pc = "panicked",
                         !.log = @ \o SubSeq(found.log, 1, panic)]
       ELSE IF found.idx > 0
       THEN [t1 EXCEPT !.pc = "handler", !.idx = found.idx, !.fut = f]
       ELSE IF box_handler_call(h.message_fallback, hd)
            THEN [t1 EXCEPT !.pc = "message_fallback",
                            !.fut = FallbackFuture(h.message_fallback, f),
                            !.log = Append(@, CallMessageFallback)]
            ELSE Returned(t1, MissingParameters)

\* The handler loop over the table, its filters given `&message`, and
\* what handle does with its outcome.
Routed(task, hd, f) ==
    RoutedTo(task, hd, f, find_handler(task.handlers, filter_message(task, hd), hd, 1))


(* ------------------------- what the user registers --------------------- *)
\* Handler functions, each with the parameter types of its signature.
noargs == Fn("noargs", << >>)
ping == Fn("ping", << "Message" >>)
with_sticker == Fn("with_sticker", << "Sticker" >>)
save_media == Fn("save_media", << "Client", "Media" >>)
message_fallback == Fn("message_fallback", << "Message" >>)
sticker_fallback == Fn("sticker_fallback", << "Sticker" >>)
\* `data` of examples/data.rs.
data_handler == Fn("data", << "Message", "Data<T>" >>)

\* (filters, handler) pairs handed to add_handler.
Registrable ==
    { HandlerWrap(<< >>, noargs),
      HandlerWrap(<< FilterRegex(TextX) >>, ping),
      HandlerWrap(<< FilterFn("always") >>, with_sticker),
      HandlerWrap(<< FilterRegex(TextX), FilterFn("has_media") >>, save_media),
      HandlerWrap(<< FilterFn("has_media"), FilterRegex(TextY) >>, ping),
      HandlerWrap(<< FilterRegex(TextX) >>, data_handler) }

\* (filters, handler) pairs an application builds by hand, without the
\* handler attribute: HandlerFilter::Regex(s) of any string s.
TextOpen == << "(" >>
BuiltRegistrable ==
    { HandlerWrap(<< FilterRegex(p) >>, ping) : p \in { TextX, TextOpen, TextX \o TextOpen } }
        \cup { HandlerWrap(<< FilterFn("always"), FilterRegex(TextOpen) >>, noargs) }

\* Functions handed to message_fallback_handler.
MessageFallbacks == { message_fallback, sticker_fallback }

\* Parameter types of handler signatures of any arity: Message is always
\* there, a Sticker with some messages, a Data<T> only once a T was added.
ParamTypes == { "Message", "Sticker", "Data<T>" }
Signatures == UNION { [1..k -> ParamTypes] : k \in 0..MaxParams }

\* Argument strings: every string of up to MaxInput characters of Chars
\* and the strings of the test and the examples.
MaxInput == 5
\* Largest count handed to parse_n.
MaxCount == 3
Chars == { " ", "\t", "5", "a" }
TestInput ==
    << "a", "a", "a", " ", " ", "b", "b", "b", " ", "c", " ", "d", " ", "e",
       " ", " ", "f", " ", " ", "g" >>
RepeatInput ==
    << "5", " ", "h", "e", "l", "l", "o", " ", "w", "o", "r", "l", "d" >>
Inputs ==
    UNION { [1..k -> Chars] : k \in 0..MaxInput } \cup { TestInput, RepeatInput }

\* Words handed to an enum's parse_arg: every string of up to MaxWord
\* letters of Letters.
MaxWord == 4
Letters == { "P", "p", "L", "l", "A", "a", "Y", "y", "U", "u" }
Words == UNION { [1..k -> Letters] : k \in 0..MaxWord }

\* The handlers of examples/args.rs, and one that takes the whole argument
\* text; each is registered under the command "c".
hi == Fn("hi", << "Message", "Args<Name>" >>)
sum == Fn("sum", << "Message", "Args<Numbers>" >>)
repeat == Fn("repeat", << "Client", "Message", "Args<RepeatArgs>" >>)
any_args == Fn("any_args", << "Message", "RawArgs" >>)
echo == Fn("echo", << "Args<Echo>" >>)
Command == << "c" >>
ArgRegistrable ==
    { HandlerWrap(<< FilterRegex(Command) >>, f) : f \in { hi, sum, repeat, any_args, echo } }

\* The tables an application builds from them: up to two entries, the
\* other slots at their defaults.
ArgApps ==
    { add_handler(HandlersNew, e) : e \in ArgRegistrable }
        \cup { add_handler(add_handler(HandlersNew, e), f) : e, f \in ArgRegistrable }

\* The message texts sent to them: the command followed by up to MaxArgs
\* characters of Chars, and "cmd abc".
MaxArgs == 3
CmdAbc == << "c", "m", "d", " ", "a", "b", "c" >>
CommandTexts ==
    { Command \o args : args \in UNION { [1..k -> Chars] : k \in 0..MaxArgs } }
        \cup { CmdAbc }

\* `action` of examples/args.rs, which takes the enum in its wrapper, a
\* handler that takes the enum itself, and the same two for Volume.
action == Fn("action", << "Args<ActionArgs>" >>)
action_direct == Fn("action_direct", << "Args<Action>" >>)
volume == Fn("volume", << "Args<VolumeArgs>" >>)
volume_direct == Fn("volume_direct", << "Args<Volume>" >>)
EnumRegistrable ==
    { HandlerWrap(<< FilterRegex(Command) >>, f) :
        f \in { action, action_direct, volume, volume_direct } }
EnumApps ==
    { add_handler(HandlersNew, e) : e \in EnumRegistrable }
        \cup { add_handler(add_handler(HandlersNew, e), f) : e, f \in EnumRegistrable }

\* The message texts sent to them: the command followed by up to
\* MaxEnumArgs characters of EnumChars, and the command followed by
\* variant names of Action.
MaxEnumArgs == 4
EnumChars == { " ", "u", "p", "U" }
ActionTexts ==
    { Command \o << " " >> \o w :
        w \in { Play, to_lowercase(Play), Skip \o << " " >>,
                 to_lowercase(Pause) \o << " " >> \o Play, << "p", "l" >> } }
        \cup { Command \o Play, Play }
EnumTexts ==
    { Command \o args : args \in UNION { [1..k -> EnumChars] : k \in 0..MaxEnumArgs } }
        \cup ActionTexts

\* Entries for an application with an interceptor: a pattern or a
\* predicate that reads its message argument or its HandlerData, before a
\* handler that takes the message, a sticker or a media.
InterceptRegistrable ==
    { HandlerWrap(<< FilterRegex(TextX) >>, ping),
      HandlerWrap(<< FilterRegex(TextY) >>, with_sticker),
      HandlerWrap(<< FilterFn("data_has_media") >>, ping),
      HandlerWrap(<< FilterFn("has_media") >>, ping),
      HandlerWrap(<< FilterRegex(TextX), FilterFn("data_has_media") >>, save_media) }
InterceptApps ==
    { interceptor(add_handler(HandlersNew, e)) : e \in InterceptRegistrable }
        \cup { interceptor(add_handler(add_handler(HandlersNew, e), f)) :
                    e, f \in InterceptRegistrable }

\* Closures handed to pattern_mutator.
Mutators == { "slash", "bang" }

\* What the registered interceptor may return for HandlerData hd: Ok(data),
\* unchanged, with another message or with user data inserted, or Err.
InterceptorReturns(hd) ==
    { Some([hd EXCEPT !.message = m]) : m \in Messages }
        \cup { Some([hd EXCEPT !.data = add_data(hd.data, "T", "v2")]) }
        \cup { None }

\* What an awaited future resolves to.
HandlerOutcomes == { Ok, HandlerErr }
MessageFallbackOutcomes(h) ==
    IF h.message_fallback = default_message_fallback_handler
    THEN { Ok } ELSE { Ok, HandlerErr }
FallbackOutcomes(h) == IF h.fallback = "default" THEN { Ok } ELSE { Ok, FallbackErr }
ErrorOutcomes(h) == IF h.error = "default" THEN { Ok } ELSE { Ok, ErrorHandlerErr }

(* ----------------------------- registration ---------------------------- *)
\* Every registration method takes &mut self, so none runs while
\* start_event_loop (which holds &mut self) does.
AddHandler ==
    \E entry \in Registrable :
        /\ loop = "setup"
        /\ Len(handlers.handlers) < MaxHandlers
        /\ handlers' = add_handler(handlers, entry)
        /\ UNCHANGED << last_data, last_set, mutator_at, input, count, output, data, loop, ret, ncalls, fetched, tasks >>

\* add_handler with a filter list built by hand.
AddHandlerBuilt ==
    \E entry \in BuiltRegistrable :
        /\ loop = "setup"
        /\ Len(handlers.handlers) < MaxHandlers
        /\ handlers' = add_handler(handlers, entry)
        /\ UNCHANGED << last_data, last_set, mutator_at, input, count, output, data, loop, ret, ncalls, fetched, tasks >>

MessageFallbackHandler ==
    \E f \in MessageFallbacks :
        /\ loop = "setup"
        /\ handlers' = message_fallback_handler(handlers, f)
        /\ last_set' = [last_set EXCEPT !.message_fallback = Some(f)]
        /\ UNCHANGED << last_data, mutator_at, input, count, output, data, loop, ret, ncalls, fetched, tasks >>

FallbackHandler ==
    /\ loop = "setup"
    /\ handlers' = fallback_handler(handlers)
    /\ last_set' = [last_set EXCEPT !.fallback = Some("user")]
    /\ UNCHANGED << last_data, mutator_at, input, count, output, data, loop, ret, ncalls, fetched, tasks >>

ErrorHandler ==
    /\ loop = "setup"
    /\ handlers' = error_handler(handlers)
    /\ last_set' = [last_set EXCEPT !.error = Some("user")]
    /\ UNCHANGED << last_data, mutator_at, input, count, output, data, loop, ret, ncalls, fetched, tasks >>

Interceptor ==
    /\ loop = "setup"
    /\ handlers' = interceptor(handlers)
    /\ last_set' = [last_set EXCEPT !.interceptor = Some("interceptor")]
    /\ UNCHANGED << last_data, mutator_at, input, count, output, data, loop, ret, ncalls, fetched, tasks >>

AddData ==
    \E ty \in DataTypes, value \in DataValues :
        /\ loop = "setup"
        /\ data' = add_data(data, ty, value)
        /\ last_data' = [last_data EXCEPT ![ty] = Some(value)]
        /\ UNCHANGED << handlers, loop, ret, ncalls, fetched, tasks,
                        last_set, mutator_at, input, count, output >>

PatternMutator ==
    \E mutator \in Mutators :
        /\ loop = "setup"
        /\ handlers' = pattern_mutator(handlers, mutator)
        /\ mutator_at' = Len(handlers.handlers)
        /\ last_set' = [last_set EXCEPT !.pattern_mutator = Some(mutator)]
        /\ UNCHANGED << last_data, input, count, output, data, loop, ret, ncalls, fetched, tasks >>

(* ------------------------------- parsing ------------------------------- *)
\* RawArgs::parse_n(input, count) is called.
ParseN ==
    /\ output = NoCall
    /\ output' = [fn |-> "parse_n", ty |-> << >>, val |-> parse_n(input, count)]
    /\ UNCHANGED << handlers, data, loop, ret, ncalls, fetched, tasks,
                    last_data, last_set, mutator_at, input, count >>

\* RawArgs::parse_arg(input) is called.
RawArgsParseArg ==
    /\ output = NoCall
    /\ output' = [fn |-> "RawArgs::parse_arg", ty |-> << >>,
                  val |-> RawArgs_parse_arg(input)]
    /\ UNCHANGED << handlers, data, loop, ret, ncalls, fetched, tasks,
                    last_data, last_set, mutator_at, input, count >>

\* The derived parse_arg of one of the structs is called.
DeriveParseArg ==
    \E struct \in Structs :
        /\ output = NoCall
        /\ output' = [fn |-> "parse_arg", ty |-> struct,
                      val |-> derive_parse_arg(struct, input)]
        /\ UNCHANGED << handlers, data, loop, ret, ncalls, fetched, tasks,
                        last_data, last_set, mutator_at, input, count >>

\* The derived parse_arg of one of the enums is called.
DeriveEnumParseArg ==
    \E enum \in Enums :
        /\ output = NoCall
        /\ output' = [fn |-> "enum parse_arg", ty |-> enum,
                      val |-> from_args_enum(enum, input)]
        /\ UNCHANGED << handlers, data, loop, ret, ncalls, fetched, tasks,
                        last_data, last_set, mutator_at, input, count >>

(* ------------------------------ event loop ----------------------------- *)
StartEventLoop ==
    /\ loop = "setup"
    /\ loop' = "top"
    /\ UNCHANGED << last_data, last_set, mutator_at, input, count, output, handlers, data, ret, ncalls, fetched, tasks >>

\* The loop awaiting every spawned task before it fetches again.
NextUpdateJoined(limit) ==
    /\ loop = "top"
    /\ ncalls < limit
    /\ \A t \in 1..Len(tasks) : tasks[t].pc = "done"
    /\ loop' = "awaiting"
    /\ ncalls' = ncalls + 1
    /\ UNCHANGED << last_data, last_set, mutator_at, input, count, output, handlers, data, ret, fetched, tasks >>

\* self.client.next_update() is called; the loop awaits it.
NextUpdate(limit) ==
    /\ loop = "top"
    /\ ncalls < limit
    /\ loop' = "awaiting"
    /\ ncalls' = ncalls + 1
    /\ UNCHANGED << last_data, last_set, mutator_at, input, count, output, handlers, data, ret, fetched, tasks >>

\* next_update returned Ok(Some(update)): clone, spawn, loop.
UpdateSome ==
    \E update \in Updates :
        /\ loop = "awaiting"
        /\ loop' = "top"
        /\ fetched' = Append(fetched, Some(update))
        /\ tasks' = Append(tasks, Spawned(update, handlers, data))
        /\ UNCHANGED << last_data, last_set, mutator_at, input, count, output, handlers, data, ret, ncalls >>

\* next_update returned Ok(Some(update)), the update a NewMessage that
\* carries a command text: clone, spawn, loop.
UpdateCommand ==
    \E text \in CommandTexts :
        /\ loop = "awaiting"
        /\ loop' = "top"
        /\ fetched' = Append(fetched, Some(NewMessage(Msg(text, "none"))))
        /\ tasks' = Append(tasks, Spawned(NewMessage(Msg(text, "none")), handlers, data))
        /\ UNCHANGED << last_data, last_set, mutator_at, input, count, output, handlers, data, ret, ncalls >>

\* next_update returned Ok(Some(update)), the update a NewMessage whose
\* text is a command followed by words for an enum: clone, spawn, loop.
UpdateEnumCommand ==
    \E text \in EnumTexts :
        /\ loop = "awaiting"
        /\ loop' = "top"
        /\ fetched' = Append(fetched, Some(NewMessage(Msg(text, "none"))))
        /\ tasks' = Append(tasks, Spawned(NewMessage(Msg(text, "none")), handlers, data))
        /\ UNCHANGED << last_data, last_set, mutator_at, input, count, output, handlers, data, ret, ncalls >>

\* The loop without its outer `loop`: end of stream returns Ok(()).
UpdateNoneReturns ==
    /\ loop = "awaiting"
    /\ loop' = "returned"
    /\ ret' = Some(Ok)
    /\ fetched' = Append(fetched, None)
    /\ UNCHANGED << last_data, last_set, mutator_at, input, count, output, handlers, data, ncalls, tasks >>

\* next_update returned Ok(None): the inner while ends, the outer loop repeats.
UpdateNone ==
    /\ loop = "awaiting"
    /\ loop' = "top"
    /\ fetched' = Append(fetched, None)
    /\ UNCHANGED << last_data, last_set, mutator_at, input, count, output, handlers, data, ret, ncalls, tasks >>

\* next_update returned Err(e): `?` returns it from start_event_loop.
UpdateErr ==
    /\ loop = "awaiting"
    /\ loop' = "returned"
    /\ ret' = Some(FetchErr)
    /\ UNCHANGED << last_data, last_set, mutator_at, input, count, output, handlers, data, ncalls, fetched, tasks >>

(* ---------------------------- dispatch tasks --------------------------- *)
\* handle answering a non-message update with Err(Unimplemented).
HandleUnimplemented(task, f) ==
    IF task.update.kind # "NewMessage"
    THEN Returned(task, "Err(Unimplemented)")
    ELSE LET hd == HandlerData(task.update.message[1], task.data)
         IN IF IsSome(task.handlers.interceptor)
            THEN [task EXCEPT !.pc = "interceptor", !.hd = Some(hd), !.fut = "Ready",
                              !.log = Append(@, CallInterceptor)]
            ELSE Routed(task, hd, f)

\* handle up to its first await: a non-message update goes to the event
\* fallback; for a message the HandlerData is built and the interceptor, if
\* one is registered, is awaited; with none the handler loop runs at once.
Handle(task, f) ==
    IF task.update.kind # "NewMessage"
    THEN [task EXCEPT !.pc = "fallback", !.fut = "Ready",
                      !.log = Append(@, CallFallback)]
    ELSE LET hd == HandlerData(task.update.message[1], task.data)
         IN IF IsSome(task.handlers.interceptor)
            THEN [task EXCEPT !.pc = "interceptor", !.hd = Some(hd), !.fut = "Ready",
                              !.log = Append(@, CallInterceptor)]
            ELSE Routed(task, hd, f)

\* The interceptor's Err dropped: the handler loop runs on the old data.
InterceptedIgnored(task, r, f) ==
    IF IsSome(r) THEN Routed(Resolved(task, Ok), r[1], f)
    ELSE Routed(Resolved(task, InterceptorErr), task.hd[1], f)

\* `data = (*interceptor)(data).await?`: Err returns from handle, Ok(data)
\* replaces the HandlerData and the handler loop runs.
Intercepted(task, r, f) ==
    IF IsSome(r) THEN Routed(Resolved(task, Ok), r[1], f)
    ELSE Returned(Resolved(task, InterceptorErr), InterceptorErr)

\* The error handler resolved with r: its own Err is only logged.
ErrorHandledRetried(task, r) ==
    IF r = Ok THEN [Resolved(task, r) EXCEPT !.pc = "done"]
    ELSE [Resolved(task, r) EXCEPT !.log = Append(@, CallError(r))]

ErrorHandled(task, r) ==
    [Resolved(task, r) EXCEPT !.pc = "done",
                              !.log = IF r = Ok THEN @ ELSE Append(@, LogError(r))]

\* A failed handler followed by the message fallback.
HandlerRetried(task, r) ==
    IF r = Ok THEN Returned(Resolved(task, r), r)
    ELSE [Resolved(task, r) EXCEPT !.pc = "message_fallback", !.fut = "Ready",
                                   !.log = Append(@, CallMessageFallback)]

\* `return f.await;` in the handler loop: whatever the entry's future
\* resolved to is what handle returns.
HandlerReturned(task, r) == Returned(Resolved(task, r), r)

\* Tasks that share one HandlerData: what task t's is set to, every task
\* that has built its own sees.
SetTaskShared(t, task) ==
    /\ tasks' = [u \in 1..Len(tasks) |->
                    IF u = t THEN task
                    ELSE IF IsSome(tasks[u].hd) /\ IsSome(task.hd)
                         THEN [tasks[u] EXCEPT !.hd = task.hd]
                         ELSE tasks[u]]
    /\ UNCHANGED << last_data, last_set, mutator_at, input, count, output, handlers, data, loop, ret, ncalls, fetched >>

SetTask(t, task) ==
    /\ tasks' = [tasks EXCEPT ![t] = task]
    /\ UNCHANGED << last_data, last_set, mutator_at, input, count, output, handlers, data, loop, ret, ncalls, fetched >>

\* Dispatch in fetch order: a task is polled once every earlier one is done.
TaskHandleInOrder(t) ==
    /\ t \in 1..Len(tasks)
    /\ tasks[t].pc = "spawned"
    /\ \A u \in 1..(t - 1) : tasks[u].pc = "done"
    /\ \E f \in { "Ready", Pending } : SetTask(t, Handle(tasks[t], f))

\* First poll of task t.
TaskHandle(t) ==
    /\ t \in 1..Len(tasks)
    /\ tasks[t].pc = "spawned"
    /\ \E f \in { "Ready", Pending } : SetTask(t, Handle(tasks[t], f))

\* The interceptor future of task t resolves.
InterceptorResolve(t) ==
    /\ t \in 1..Len(tasks)
    /\ tasks[t].pc = "interceptor"
    /\ \E r \in InterceptorReturns(tasks[t].hd[1]), f \in { "Ready", Pending } :
            SetTask(t, Intercepted(tasks[t], r, f))

\* The awaited handler future of task t resolves; handle returns its value.
HandlerResolve(t) ==
    /\ t \in 1..Len(tasks)
    /\ tasks[t].pc = "handler"
    /\ tasks[t].fut = "Ready"
    /\ \E r \in HandlerOutcomes : SetTask(t, HandlerReturned(tasks[t], r))

MessageFallbackResolve(t) ==
    /\ t \in 1..Len(tasks)
    /\ tasks[t].pc = "message_fallback"
    /\ tasks[t].fut = "Ready"
    /\ \E r \in MessageFallbackOutcomes(tasks[t].handlers) :
            SetTask(t, Returned(Resolved(tasks[t], r), r))

FallbackResolve(t) ==
    /\ t \in 1..Len(tasks)
    /\ tasks[t].pc = "fallback"
    /\ \E r \in FallbackOutcomes(tasks[t].handlers) :
            SetTask(t, Returned(Resolved(tasks[t], r), r))

ErrorResolve(t) ==
    /\ t \in 1..Len(tasks)
    /\ tasks[t].pc = "error"
    /\ \E r \in ErrorOutcomes(tasks[t].handlers) :
            SetTask(t, ErrorHandled(tasks[t], r))

\* Any step of task t.
TaskStep(t) ==
    \/ TaskHandle(t)
    \/ InterceptorResolve(t)
    \/ HandlerResolve(t)
    \/ MessageFallbackResolve(t)
    \/ FallbackResolve(t)
    \/ ErrorResolve(t)

(* --------------------------- specifications ---------------------------- *)
\* Grammersthon::from_client: an empty table with the default slots.
Init ==
    /\ handlers = HandlersNew
    /\ data = EmptyTypeMap
    /\ loop = "setup"
    /\ ret = None
    /\ ncalls = 0
    /\ fetched = << >>
    /\ tasks = << >>
    /\ last_data = EmptyTypeMap
    /\ last_set = SetBy(handlers)
    /\ mutator_at = -1
    /\ input = << >>
    /\ count = 0
    /\ output = NoCall

\* Spec: any registration sequence, then the event loop up to the first
\* answer of next_update, and the dispatch task of that update.
Next ==
    \/ AddHandler
    \/ MessageFallbackHandler
    \/ FallbackHandler
    \/ ErrorHandler
    \/ Interceptor
    \/ StartEventLoop
    \/ NextUpdate(1)
    \/ UpdateSome
    \/ UpdateNone
    \/ UpdateErr
    \/ \E t \in 1..Len(tasks) : TaskHandle(t)
    \/ \E t \in 1..Len(tasks) : InterceptorResolve(t)
    \/ \E t \in 1..Len(tasks) : HandlerResolve(t)
    \/ \E t \in 1..Len(tasks) : MessageFallbackResolve(t)
    \/ \E t \in 1..Len(tasks) : FallbackResolve(t)
    \/ \E t \in 1..Len(tasks) : ErrorResolve(t)

Spec == Init /\ [][Next]_vars


\* Tables built by registration chains like those of examples/basic.rs and
\* examples/errors.rs.
AppBasic ==
    fallback_handler(
        add_handler(
            add_handler(HandlersNew, HandlerWrap(<< FilterRegex(TextX) >>, ping)),
            HandlerWrap(<< FilterFn("always") >>, with_sticker)))
AppErrors ==
    add_handler(
        fallback_handler(
            interceptor(
                error_handler(
                    message_fallback_handler(HandlersNew, message_fallback)))),
        HandlerWrap(<< FilterRegex(TextX) >>, ping))
Apps == { AppBasic, AppErrors }

InitLoop ==
    /\ handlers \in Apps
    /\ data = EmptyTypeMap
    /\ loop = "setup"
    /\ ret = None
    /\ ncalls = 0
    /\ fetched = << >>
    /\ tasks = << >>
    /\ last_data = EmptyTypeMap
    /\ last_set = SetBy(handlers)
    /\ mutator_at = -1
    /\ input = << >>
    /\ count = 0
    /\ output = NoCall

\* SpecLoop: a registered application, then the event loop over up to
\* MaxFetch answers of next_update and every dispatch task it spawns.
NextLoop ==
    \/ StartEventLoop
    \/ NextUpdate(MaxFetch)
    \/ UpdateSome
    \/ UpdateNone
    \/ UpdateErr
    \/ \E t \in 1..Len(tasks) : TaskHandle(t)
    \/ \E t \in 1..Len(tasks) : InterceptorResolve(t)
    \/ \E t \in 1..Len(tasks) : HandlerResolve(t)
    \/ \E t \in 1..Len(tasks) : MessageFallbackResolve(t)
    \/ \E t \in 1..Len(tasks) : FallbackResolve(t)
    \/ \E t \in 1..Len(tasks) : ErrorResolve(t)

SpecLoop == InitLoop /\ [][NextLoop]_vars


\* SpecLoopFair: the application of examples/basic.rs under a tokio runtime
\* that polls every task that can make progress. A task awaiting a Pending
\* future has no step, so nothing is asked of it.
InitBasic ==
    /\ InitLoop
    /\ handlers = AppBasic

NextBasic ==
    \/ StartEventLoop
    \/ NextUpdate(MaxFetch)
    \/ UpdateSome
    \/ UpdateNone
    \/ UpdateErr
    \/ \E t \in 1..Len(tasks) : TaskHandle(t)
    \/ \E t \in 1..Len(tasks) : HandlerResolve(t)
    \/ \E t \in 1..Len(tasks) : MessageFallbackResolve(t)
    \/ \E t \in 1..Len(tasks) : FallbackResolve(t)
    \/ \E t \in 1..Len(tasks) : ErrorResolve(t)

SpecLoopFair ==
    /\ InitBasic
    /\ [][NextBasic]_vars
    /\ \A t \in 1..MaxFetch : WF_vars(TaskStep(t))

\* SpecMutator: an application that registers entries and pattern mutators
\* in any order, then the dispatch of the first update fetched.
NextMutator ==
    \/ AddHandler
    \/ PatternMutator
    \/ StartEventLoop
    \/ NextUpdate(1)
    \/ UpdateSome
    \/ UpdateNone
    \/ UpdateErr
    \/ \E t \in 1..Len(tasks) : TaskHandle(t)
    \/ \E t \in 1..Len(tasks) : HandlerResolve(t)
    \/ \E t \in 1..Len(tasks) : MessageFallbackResolve(t)
    \/ \E t \in 1..Len(tasks) : FallbackResolve(t)
    \/ \E t \in 1..Len(tasks) : ErrorResolve(t)

SpecMutator == Init /\ [][NextMutator]_vars

\* SpecSetup: every sequence of registration calls on a new Grammersthon,
\* before start_event_loop.
NextSetup ==
    \/ AddHandler
    \/ MessageFallbackHandler
    \/ FallbackHandler
    \/ ErrorHandler
    \/ Interceptor
    \/ PatternMutator

SpecSetup == Init /\ [][NextSetup]_vars

\* SpecData: an application that registers entries and user data in any
\* order, like examples/data.rs, then the dispatch of the first update.
NextData ==
    \/ AddHandler
    \/ AddData
    \/ StartEventLoop
    \/ NextUpdate(1)
    \/ UpdateSome
    \/ UpdateNone
    \/ UpdateErr
    \/ \E t \in 1..Len(tasks) : TaskHandle(t)
    \/ \E t \in 1..Len(tasks) : HandlerResolve(t)
    \/ \E t \in 1..Len(tasks) : MessageFallbackResolve(t)
    \/ \E t \in 1..Len(tasks) : FallbackResolve(t)
    \/ \E t \in 1..Len(tasks) : ErrorResolve(t)

SpecData == Init /\ [][NextData]_vars

\* SpecExtract: one entry without filters whose handler has any signature
\* of 0 to MaxParams parameters, then the dispatch of the first update.
InitExtract ==
    /\ \E sig \in Signatures :
            handlers = add_handler(HandlersNew, HandlerWrap(<< >>, Fn("handler", sig)))
    /\ data = EmptyTypeMap
    /\ loop = "setup"
    /\ ret = None
    /\ ncalls = 0
    /\ fetched = << >>
    /\ tasks = << >>
    /\ last_data = EmptyTypeMap
    /\ last_set = SetBy(handlers)
    /\ mutator_at = -1
    /\ input = << >>
    /\ count = 0
    /\ output = NoCall

NextExtract ==
    \/ StartEventLoop
    \/ NextUpdate(1)
    \/ UpdateSome
    \/ UpdateNone
    \/ UpdateErr
    \/ \E t \in 1..Len(tasks) : TaskHandle(t)
    \/ \E t \in 1..Len(tasks) : HandlerResolve(t)
    \/ \E t \in 1..Len(tasks) : MessageFallbackResolve(t)
    \/ \E t \in 1..Len(tasks) : FallbackResolve(t)
    \/ \E t \in 1..Len(tasks) : ErrorResolve(t)

SpecExtract == InitExtract /\ [][NextExtract]_vars

\* SpecParse: the argument parser applied to any argument string.
InitParse ==
    /\ handlers = HandlersNew
    /\ data = EmptyTypeMap
    /\ loop = "setup"
    /\ ret = None
    /\ ncalls = 0
    /\ fetched = << >>
    /\ tasks = << >>
    /\ last_data = EmptyTypeMap
    /\ last_set = SetBy(handlers)
    /\ mutator_at = -1
    /\ input \in Inputs
    /\ count \in 0..MaxCount
    /\ output = NoCall

NextParse ==
    \/ ParseN
    \/ RawArgsParseArg
    \/ DeriveParseArg

SpecParse == InitParse /\ [][NextParse]_vars

\* SpecRegex: an application that registers entries made by the handler
\* attribute and entries built by hand, and pattern mutators, then the
\* dispatch of the first update fetched.
NextRegex ==
    \/ AddHandler
    \/ AddHandlerBuilt
    \/ PatternMutator
    \/ StartEventLoop
    \/ NextUpdate(1)
    \/ UpdateSome
    \/ UpdateNone
    \/ UpdateErr
    \/ \E t \in 1..Len(tasks) : TaskHandle(t)
    \/ \E t \in 1..Len(tasks) : HandlerResolve(t)
    \/ \E t \in 1..Len(tasks) : MessageFallbackResolve(t)
    \/ \E t \in 1..Len(tasks) : FallbackResolve(t)
    \/ \E t \in 1..Len(tasks) : ErrorResolve(t)

SpecRegex == Init /\ [][NextRegex]_vars

\* SpecArgs: an application like examples/args.rs, then the dispatch of
\* the first update fetched, a message that carries a command text.
InitArgs ==
    /\ handlers \in ArgApps
    /\ data = EmptyTypeMap
    /\ loop = "setup"
    /\ ret = None
    /\ ncalls = 0
    /\ fetched = << >>
    /\ tasks = << >>
    /\ last_data = EmptyTypeMap
    /\ last_set = SetBy(handlers)
    /\ mutator_at = -1
    /\ input = << >>
    /\ count = 0
    /\ output = NoCall

NextArgs ==
    \/ StartEventLoop
    \/ NextUpdate(1)
    \/ UpdateCommand
    \/ UpdateNone
    \/ UpdateErr
    \/ \E t \in 1..Len(tasks) : TaskHandle(t)
    \/ \E t \in 1..Len(tasks) : HandlerResolve(t)
    \/ \E t \in 1..Len(tasks) : MessageFallbackResolve(t)
    \/ \E t \in 1..Len(tasks) : ErrorResolve(t)

SpecArgs == InitArgs /\ [][NextArgs]_vars

\* SpecAction: an application whose handlers take a derived enum, in its
\* wrapper or directly, then the dispatch of the first update fetched.
InitAction ==
    /\ handlers \in EnumApps
    /\ data = EmptyTypeMap
    /\ loop = "setup"
    /\ ret = None
    /\ ncalls = 0
    /\ fetched = << >>
    /\ tasks = << >>
    /\ last_data = EmptyTypeMap
    /\ last_set = SetBy(handlers)
    /\ mutator_at = -1
    /\ input = << >>
    /\ count = 0
    /\ output = NoCall

NextAction ==
    \/ StartEventLoop
    \/ NextUpdate(1)
    \/ UpdateEnumCommand
    \/ UpdateNone
    \/ UpdateErr
    \/ \E t \in 1..Len(tasks) : TaskHandle(t)
    \/ \E t \in 1..Len(tasks) : HandlerResolve(t)
    \/ \E t \in 1..Len(tasks) : MessageFallbackResolve(t)
    \/ \E t \in 1..Len(tasks) : ErrorResolve(t)

SpecAction == InitAction /\ [][NextAction]_vars

\* SpecIntercept: an application with an interceptor, then the dispatch
\* of the first update fetched.
InitIntercept ==
    /\ handlers \in InterceptApps
    /\ data = EmptyTypeMap
    /\ loop = "setup"
    /\ ret = None
    /\ ncalls = 0
    /\ fetched = << >>
    /\ tasks = << >>
    /\ last_data = EmptyTypeMap
    /\ last_set = SetBy(handlers)
    /\ mutator_at = -1
    /\ input = << >>
    /\ count = 0
    /\ output = NoCall

NextIntercept ==
    \/ StartEventLoop
    \/ NextUpdate(1)
    \/ UpdateSome
    \/ UpdateNone
    \/ UpdateErr
    \/ \E t \in 1..Len(tasks) : TaskHandle(t)
    \/ \E t \in 1..Len(tasks) : InterceptorResolve(t)
    \/ \E t \in 1..Len(tasks) : HandlerResolve(t)
    \/ \E t \in 1..Len(tasks) : MessageFallbackResolve(t)
    \/ \E t \in 1..Len(tasks) : FallbackResolve(t)
    \/ \E t \in 1..Len(tasks) : ErrorResolve(t)

SpecIntercept == InitIntercept /\ [][NextIntercept]_vars

\* SpecEnum: the parse_arg of a derived enum applied to any word.
InitEnum ==
    /\ handlers = HandlersNew
    /\ data = EmptyTypeMap
    /\ loop = "setup"
    /\ ret = None
    /\ ncalls = 0
    /\ fetched = << >>
    /\ tasks = << >>
    /\ last_data = EmptyTypeMap
    /\ last_set = SetBy(handlers)
    /\ mutator_at = -1
    /\ input \in Words
    /\ count = 0
    /\ output = NoCall

NextEnum == DeriveEnumParseArg

SpecEnum == InitEnum /\ [][NextEnum]_vars

(* ------------------------------ properties ----------------------------- *)
\* The calls of one kind in a task's log, in order.
CallsOf(task, kinds) ==
    LET Wanted(c) == c.call \in kinds IN SelectSeq(task.log, Wanted)

\* The handler functions a task invoked: table entries and message fallback.
Invoked(task) == CallsOf(task, { "handler", "message_fallback" })

\* handle has run its handler loop for this task's message.
HasRouted(task) ==
    /\ task.update.kind = "NewMessage"
    /\ task.pc \notin { "spawned", "interceptor" }
    /\ task.result # Some(InterceptorErr)

\* Entry i of the task's table: every filter matches the event's message ...
FiltersMatch(task, i) ==
    LET entry == task.handlers.handlers[i]
    IN \A j \in 1..Len(entry.filters) :
            is_match(entry.filters[j], task.update.message[1],
                     task.handlers.pattern_mutator, task.hd[1])

\* ... and every declared parameter extracts from the task's HandlerData.
ParamsExtract(task, handler) ==
    \A k \in 1..Len(handler.sig) : IsSome(from_data(handler.sig[k], task.hd[1]))

Eligible(task) ==
    { i \in 1..Len(task.handlers.handlers) :
        FiltersMatch(task, i) /\ ParamsExtract(task, task.handlers.handlers[i].handler) }

Min(S) == CHOOSE i \in S : \A k \in S : i <= k

\* C1: registration order is match priority. Whenever handle has routed a
\* NewMessage and some entry both matches and extracts, the only handler
\* function invoked is the first such entry in add_handler order: no other
\* entry and not the message fallback.
C1_FirstEligibleEntryOnly ==
    \A t \in 1..Len(tasks) :
        (HasRouted(tasks[t]) /\ Eligible(tasks[t]) # {}) =>
            /\ Invoked(tasks[t]) = << CallHandler(Min(Eligible(tasks[t]))) >>
            /\ tasks[t].idx = Min(Eligible(tasks[t]))

\* C1 witness: two different entries both match and extract for the same
\* message, the task has finished, and only the first was invoked.
C1_Witness ==
    \E t \in 1..Len(tasks) :
        /\ tasks[t].pc = "done"
        /\ HasRouted(tasks[t])
        /\ Eligible(tasks[t]) = { 1, 2 }
        /\ tasks[t].handlers.handlers[1] # tasks[t].handlers.handlers[2]
        /\ Invoked(tasks[t]) = << CallHandler(1) >>

\* C2: an entry whose filters all match but whose parameters do not all
\* extract is skipped like a non-matching one. If handle reaches it (no
\* earlier entry is eligible) its extraction is tried, its handler is never
\* invoked, the next eligible entry (or, with none, the message fallback) is
\* what runs, and the error handler is called only for an Err that an
\* invoked handler returned or for the fallback's MissingParameters.
C2_Skipped(task, i) ==
    /\ i \in 1..Len(task.handlers.handlers)
    /\ FiltersMatch(task, i)
    /\ ~ParamsExtract(task, task.handlers.handlers[i].handler)
    /\ \A k \in Eligible(task) : k > i

C2_UnextractableEntrySkipped ==
    \A t \in 1..Len(tasks) :
        LET task == tasks[t]
            later == Eligible(task)
        IN \A i \in 1..MaxHandlers + 1 :
            (HasRouted(task) /\ C2_Skipped(task, i)) =>
                /\ CallExtract(i) \in { task.log[n] : n \in 1..Len(task.log) }
                /\ CallsOf(task, { "handler" }) =
                      IF later = {} THEN << >> ELSE << CallHandler(Min(later)) >>
                /\ (later = {} /\ ParamsExtract(task, task.handlers.message_fallback))
                      => Invoked(task) = << CallMessageFallback >>
                /\ \A n \in 1..Len(task.log) :
                      task.log[n].call = "error" =>
                          \/ task.log[n].err = HandlerErr /\ Invoked(task) # << >>
                          \/ /\ task.log[n].err = MissingParameters
                             /\ Invoked(task) = << >>
                             /\ ~ParamsExtract(task, task.handlers.message_fallback)

\* C2 witness: with_sticker (filter always true, parameter Sticker) is first
\* in the table, the message has no media, and the task finished after the
\* second entry ran.
C2_Witness ==
    \E t \in 1..Len(tasks) :
        /\ tasks[t].pc = "done"
        /\ HasRouted(tasks[t])
        /\ C2_Skipped(tasks[t], 1)
        /\ tasks[t].handlers.handlers[1].handler = with_sticker
        /\ tasks[t].update.message[1].media = "none"
        /\ Invoked(tasks[t]) = << CallHandler(2) >>


\* The entries of a task's log.
Logged(task) == { task.log[n] : n \in 1..Len(task.log) }

\* The task awaits a handler future that never resolves.
Hung(task) == task.pc \in { "handler", "message_fallback" } /\ task.fut = Pending

\* The loop has returned only because a next_update call failed.
LoopEndedByFetchOnly ==
    /\ (loop = "returned") = (ret # None)
    /\ ret # None => (ret = Some(FetchErr) /\ ncalls = Len(fetched) + 1)

\* C3: when a handler returned an error, the error handler has been invoked
\* exactly once, with that error; the event loop has not ended because of it
\* and can fetch again; and every task spawned but not yet polled can still be
\* dispatched.
C3_HandlerErrorRouted ==
    \A t \in 1..Len(tasks) :
        Ret("handler", tasks[t].idx, HandlerErr) \in Logged(tasks[t]) =>
            /\ tasks[t].result = Some(HandlerErr)
            /\ CallsOf(tasks[t], { "error" }) = << CallError(HandlerErr) >>
            /\ LoopEndedByFetchOnly
            /\ (loop = "top" /\ ncalls < MaxFetch) => ENABLED NextUpdate(MaxFetch)
            /\ \A u \in 1..Len(tasks) :
                    tasks[u].pc = "spawned" => ENABLED TaskHandle(u)

\* C3 witness: the first task's handler failed and its error handler ran to
\* the end; the update fetched after that was dispatched to a handler, too.
C3_Witness ==
    /\ Len(tasks) = 2
    /\ Ret("handler", 1, HandlerErr) \in Logged(tasks[1])
    /\ tasks[1].pc = "done"
    /\ CallsOf(tasks[1], { "error" }) = << CallError(HandlerErr) >>
    /\ tasks[2].pc = "done"
    /\ CallsOf(tasks[2], { "handler" }) # << >>
    /\ loop # "returned"

\* C4: a hung handler blocks no other event. Under fair scheduling, whenever
\* one task's handler never completes, every other spawned task still runs
\* to its end (or hangs in its own handler), whatever the fetch order.
C4_HungHandlerBlocksNoOther ==
    \A t2 \in 1..MaxFetch :
        (/\ Len(tasks) >= t2
         /\ \E t1 \in 1..Len(tasks) : t1 # t2 /\ Hung(tasks[t1]))
            ~> (Len(tasks) >= t2 /\ (tasks[t2].pc = "done" \/ Hung(tasks[t2])))

\* C4 witness: the first event's handler hangs and the handler of the second
\* event, fetched later, has returned.
C4_Witness ==
    /\ Len(tasks) >= 2
    /\ tasks[1].pc = "handler" /\ Hung(tasks[1])
    /\ tasks[2].pc = "done"
    /\ Ret("handler", tasks[2].idx, Ok) \in Logged(tasks[2])

\* C5: start_event_loop returns only when a next_update call failed, and
\* then returns that failure, never Ok: no outcome of a handler, interceptor,
\* fallback or error handler ends it, and after next_update yields None the
\* loop is about to fetch again.
C5_LoopEndsOnlyOnFetchFailure ==
    /\ LoopEndedByFetchOnly
    /\ (fetched # << >> /\ fetched[Len(fetched)] = None /\ ncalls = Len(fetched))
            => loop = "top"
    /\ (loop = "top" /\ ncalls < MaxFetch) => ENABLED NextUpdate(MaxFetch)

\* C5 witness: next_update yielded None, the loop fetched again, and that
\* fetch failed: the loop returned the failure.
C5_Witness ==
    /\ fetched = << None >>
    /\ ncalls = 2
    /\ loop = "returned"
    /\ ret = Some(FetchErr)

\* C6: for an update that is not NewMessage, handle invokes the event
\* fallback exactly once and returns what it returned; it builds no
\* HandlerData, runs no interceptor, evaluates no filter and invokes no
\* handler entry and no message fallback.
C6_NonMessageToFallback ==
    \A t \in 1..Len(tasks) :
        LET task == tasks[t]
        IN (task.update.kind # "NewMessage" /\ task.pc # "spawned") =>
            /\ CallsOf(task, { "fallback", "interceptor", "filter", "extract",
                               "handler", "message_fallback" }) = << CallFallback >>
            /\ task.hd = None
            /\ (task.pc = "fallback") = (task.result = None)
            /\ task.result # None =>
                    Ret("fallback", 0, task.result[1]) \in Logged(task)

\* C6 witness: a non-message update went to a registered event fallback
\* whose Err became the result of handle, in a table that has an interceptor
\* and an entry with an empty filter-set.
C6_Witness ==
    \E t \in 1..Len(tasks) :
        /\ tasks[t].update = OtherUpdate
        /\ tasks[t].result = Some(FallbackErr)
        /\ IsSome(tasks[t].handlers.interceptor)
        /\ Len(tasks[t].handlers.handlers) > 0
        /\ tasks[t].handlers.handlers[1].filters = << >>


\* C7: when handle has routed a NewMessage and no entry both matches and
\* extracts, then, if the message fallback's parameters extract, the message
\* fallback is the one function invoked, exactly once, and what it returns
\* is what handle returns; if they do not extract, no handler function is
\* invoked and handle returns MissingParameters.
C7_FallThroughToMessageFallback ==
    \A t \in 1..Len(tasks) :
        LET task == tasks[t]
        IN (HasRouted(task) /\ Eligible(task) = {}) =>
            IF ParamsExtract(task, task.handlers.message_fallback)
            THEN /\ Invoked(task) = << CallMessageFallback >>
                 /\ (task.pc = "message_fallback") = (task.result = None)
                 /\ task.result # None =>
                        Ret("message_fallback", 0, task.result[1]) \in Logged(task)
            ELSE /\ Invoked(task) = << >>
                 /\ task.result = Some(MissingParameters)

\* C7 witness: the table has an entry, the message fallback declares a
\* Sticker, the message has none, and handle returned MissingParameters.
C7_Witness ==
    \E t \in 1..Len(tasks) :
        /\ HasRouted(tasks[t])
        /\ Len(tasks[t].handlers.handlers) > 0
        /\ tasks[t].handlers.message_fallback = sticker_fallback
        /\ Invoked(tasks[t]) = << >>
        /\ tasks[t].result = Some(MissingParameters)
        /\ tasks[t].pc = "done"

\* C7 second case, reached too: the registered message fallback ran after
\* every entry was passed over, and its Err is what handle returned.
C7_WitnessFallbackRan ==
    \E t \in 1..Len(tasks) :
        /\ HasRouted(tasks[t])
        /\ Len(tasks[t].handlers.handlers) = MaxHandlers
        /\ Invoked(tasks[t]) = << CallMessageFallback >>
        /\ tasks[t].result = Some(HandlerErr)

\* C8: when the interceptor failed for an event, handle returned that error
\* without evaluating a filter, trying an extraction or invoking a handler
\* entry or the message fallback; the task then called the error handler
\* with it, once; and every other task can still take its next step.
C8_InterceptorFailureAborts ==
    \A t \in 1..Len(tasks) :
        LET task == tasks[t]
        IN Ret("interceptor", 0, InterceptorErr) \in Logged(task) =>
            /\ task.result = Some(InterceptorErr)
            /\ CallsOf(task, { "interceptor", "filter", "extract", "handler",
                               "message_fallback", "fallback", "error" })
                    = << CallInterceptor, CallError(InterceptorErr) >>
            /\ \A u \in 1..Len(tasks) :
                    (u # t /\ tasks[u].pc # "done" /\ ~Hung(tasks[u]))
                        => ENABLED TaskStep(u)

\* C8 witness: the interceptor failed for the first event and passed the
\* second, whose matching handler was invoked and returned.
C8_Witness ==
    /\ Len(tasks) = 2
    /\ tasks[1].result = Some(InterceptorErr)
    /\ tasks[1].pc = "done"
    /\ Ret("interceptor", 0, Ok) \in Logged(tasks[2])
    /\ CallsOf(tasks[2], { "handler" }) = << CallHandler(1) >>
    /\ tasks[2].pc = "done"

\* The answers of next_update that carried an update, in order.
FetchedUpdates == LET Carries(o) == IsSome(o) IN SelectSeq(fetched, Carries)

\* next_update calls that have not returned yet.
Outstanding == ncalls - Len(fetched) - (IF ret = None THEN 0 ELSE 1)

\* C9: at most one next_update call is outstanding at any time; the tasks
\* spawned are, one for one and in the same order, the updates fetched; and
\* the loop can start its next fetch whatever state the spawned tasks are in.
C9_SequentialFetchUnboundedSpawn ==
    /\ Outstanding \in { 0, 1 }
    /\ (Outstanding = 1) = (loop = "awaiting")
    /\ [t \in 1..Len(tasks) |-> Some(tasks[t].update)] = FetchedUpdates
    /\ (loop = "top" /\ ncalls < MaxFetch) => ENABLED NextUpdate(MaxFetch)

\* C9 witness: two updates were fetched one after the other and spawned in
\* that order while the first task hangs in its handler and the second has
\* not been polled.
C9_Witness ==
    /\ Len(tasks) = 2
    /\ tasks[1].update # tasks[2].update
    /\ fetched = << Some(tasks[1].update), Some(tasks[2].update) >>
    /\ Hung(tasks[1])
    /\ tasks[2].pc = "spawned"

\* C10: the filter-set of an entry handle reaches (no earlier entry is
\* eligible) counts as matching, so that the entry's extraction is tried,
\* if and only if every filter of the set matches the message; an entry
\* with an empty filter-set that handle reaches is always tried.
C10_FilterSetIsConjunction ==
    \A t \in 1..Len(tasks) :
        LET task == tasks[t]
            n == Len(task.handlers.handlers)
        IN HasRouted(task) =>
            \A i \in 1..n :
                (\A k \in Eligible(task) : k >= i) =>
                    /\ (CallExtract(i) \in Logged(task)) = FiltersMatch(task, i)
                    /\ task.handlers.handlers[i].filters = << >>
                            => CallExtract(i) \in Logged(task)

\* C10 witness: one task passed over an entry with two filters of which
\* only the first matched, and ran a later entry whose two filters, a
\* Pattern and a Predicate, both matched.
C10_Witness ==
    \E t \in 1..Len(tasks) :
        LET task == tasks[t]
        IN /\ HasRouted(task)
           /\ Len(task.handlers.handlers) = 2
           /\ Len(task.handlers.handlers[1].filters) = 2
           /\ is_match(task.handlers.handlers[1].filters[1], task.update.message[1],
                       task.handlers.pattern_mutator, task.hd[1])
           /\ ~FiltersMatch(task, 1)
           /\ Len(task.handlers.handlers[2].filters) = 2
           /\ FiltersMatch(task, 2)
           /\ CallsOf(task, { "extract", "handler" }) = << CallExtract(2), CallHandler(2) >>

\* handle evaluated the filters of entry i: no earlier entry was invoked.
Reached(task, i) == \A k \in 1..(i - 1) : CallHandler(k) \notin Logged(task)

\* The regex a Pattern filter is matched with, as the claim has it: what the
\* registered mutator makes of the pattern string, the pattern itself with
\* no mutator registered.
C11_Regex(h, p) ==
    IF h.pattern_mutator = None THEN p ELSE MutatorCall(h.pattern_mutator[1], p)

C11_FilterMatches(task, filter) ==
    IF filter.kind = "Regex"
    THEN RegexIsMatch(C11_Regex(task.handlers, filter.arg), task.update.message[1].text)
    ELSE FnFilterCall(filter.arg[1], task.update.message[1], task.hd[1])

\* C11: with a pattern mutator registered, every Pattern filter of every
\* entry handle reaches, added before or after the mutator was set, is
\* matched with the regex the mutator makes of its pattern and never with the
\* raw pattern; Predicate filters are evaluated as they are; with no mutator
\* the raw pattern is matched. The entry's extraction is tried exactly when
\* all its filters match in that sense.
C11_MutatorAppliesToEveryPattern ==
    \A t \in 1..Len(tasks) :
        LET task == tasks[t]
        IN HasRouted(task) =>
            \A i \in 1..Len(task.handlers.handlers) :
                Reached(task, i) =>
                    (CallExtract(i) \in Logged(task)) =
                        \A j \in 1..Len(task.handlers.handlers[i].filters) :
                            C11_FilterMatches(task, task.handlers.handlers[i].filters[j])

\* C11 witness: the mutator was set between two add_handler calls; the
\* message text matches the raw pattern of an entry added before and of one
\* added after, but not what the mutator makes of it, and handle passed
\* over both and ran the message fallback.
C11_Witness ==
    \E t \in 1..Len(tasks) :
        LET task == tasks[t]
            entries == task.handlers.handlers
        IN /\ HasRouted(task)
           /\ task.pc = "done"
           /\ mutator_at = 1
           /\ Len(entries) = 2
           /\ task.handlers.pattern_mutator = Some("slash")
           /\ \A i \in 1..2 :
                 /\ entries[i].filters # << >>
                 /\ entries[i].filters[1] = FilterRegex(TextX)
                 /\ RegexIsMatch(TextX, task.update.message[1].text)
                 /\ CallFilter(i, 1) \in Logged(task)
                 /\ CallExtract(i) \notin Logged(task)
           /\ Invoked(task) = << CallMessageFallback >>

\* C11, the matching case, reached too: with the mutator of basic.rs set
\* before any entry, a text holding "/x" ran the entry of pattern "x".
C11_WitnessMatched ==
    \E t \in 1..Len(tasks) :
        LET task == tasks[t]
        IN /\ HasRouted(task)
           /\ mutator_at = 0
           /\ task.handlers.pattern_mutator = Some("slash")
           /\ task.handlers.handlers # << >>
           /\ task.handlers.handlers[1].filters = << FilterRegex(TextX) >>
           /\ task.update.message[1].text = TextSlashX
           /\ Invoked(task) = << CallHandler(1) >>

\* The five single slots of a table, without its entry list.
Slots(h) ==
    << h.message_fallback, h.fallback, h.error, h.interceptor, h.pattern_mutator >>

\* Every slot holds the argument of the most recent call of its setter, or
\* its default if the setter was never called.
C12_SlotsHoldLastSet ==
    /\ handlers.message_fallback =
            IF last_set.message_fallback = None THEN default_message_fallback_handler
            ELSE last_set.message_fallback[1]
    /\ handlers.fallback = IF last_set.fallback = None THEN "default" ELSE "user"
    /\ handlers.error = IF last_set.error = None THEN "default" ELSE "user"
    /\ handlers.interceptor = last_set.interceptor
    /\ handlers.pattern_mutator = last_set.pattern_mutator

\* A registration step changes one thing: a setter call changes no slot
\* but its own and leaves the entry list as it is; a step that changes the
\* entry list appends one entry, keeps the entries there were in place and
\* changes no slot.
C12_OneThingChanges ==
    /\ \A k \in 1..5 :
            Slots(handlers')[k] # Slots(handlers)[k] =>
                /\ \A m \in 1..5 : m # k => Slots(handlers')[m] = Slots(handlers)[m]
                /\ handlers'.handlers = handlers.handlers
    /\ handlers'.handlers # handlers.handlers =>
            /\ Len(handlers'.handlers) = Len(handlers.handlers) + 1
            /\ SubSeq(handlers'.handlers, 1, Len(handlers.handlers)) = handlers.handlers
            /\ handlers'.handlers[Len(handlers'.handlers)] \in Registrable
            /\ Slots(handlers') = Slots(handlers)
            /\ last_set' = last_set

AllDefault(h) == SetBy(h) = SetBy(HandlersNew)

\* C13: with the defaults in place no event ends in a failure that escapes.
\* An unmatched NewMessage goes to the default message fallback, which
\* always extracts (never MissingParameters) and returns Ok; a non-message
\* update goes to the default event fallback, which returns Ok; the default
\* error handler returns Ok, so nothing it returns is logged as a failure;
\* and with all of them default a finished task either got Ok from handle
\* or had a handler's Err taken by the error handler.
C13_DefaultsNeverFail ==
    \A t \in 1..Len(tasks) :
        LET task == tasks[t]
            h == task.handlers
        IN /\ (/\ h.message_fallback = default_message_fallback_handler
               /\ HasRouted(task) /\ Eligible(task) = {}) =>
                    /\ Invoked(task) = << CallMessageFallback >>
                    /\ task.result \in { None, Some(Ok) }
                    /\ task.result = None => (task.pc = "message_fallback" /\ ~Hung(task))
           /\ (h.fallback = "default" /\ task.update.kind # "NewMessage"
                    /\ task.pc # "spawned") =>
                    /\ CallFallback \in Logged(task)
                    /\ task.result \in { None, Some(Ok) }
           /\ h.error = "default" =>
                    \A n \in 1..Len(task.log) :
                        /\ task.log[n].call # "error!"
                        /\ task.log[n].call = "error.ret" => task.log[n].err = Ok
           /\ (AllDefault(h) /\ task.pc = "done") =>
                    \/ task.result = Some(Ok)
                    \/ /\ task.result = Some(HandlerErr)
                       /\ CallsOf(task, { "error", "error.ret", "error!" })
                            = << CallError(HandlerErr), Ret("error", task.idx, Ok) >>

\* C13 witness: a table of two entries and default slots; neither entry
\* took the message, the default message fallback ran and returned Ok.
C13_Witness ==
    \E t \in 1..Len(tasks) :
        /\ AllDefault(tasks[t].handlers)
        /\ Len(tasks[t].handlers.handlers) = 2
        /\ HasRouted(tasks[t])
        /\ Eligible(tasks[t]) = {}
        /\ tasks[t].pc = "done"
        /\ Ret("message_fallback", 0, Ok) \in Logged(tasks[t])

\* C13, the other defaults, reached too: a handler's Err was taken by the
\* default error handler, and a non-message update by the default fallback.
C13_WitnessErrorTaken ==
    \E t \in 1..Len(tasks) :
        /\ AllDefault(tasks[t].handlers)
        /\ tasks[t].pc = "done"
        /\ tasks[t].result = Some(HandlerErr)

C13_WitnessFallback ==
    \E t \in 1..Len(tasks) :
        /\ AllDefault(tasks[t].handlers)
        /\ tasks[t].pc = "done"
        /\ tasks[t].update = OtherUpdate

\* The parameter type that extracts the stored value of type ty.
DataParam(ty) == IF ty = "T" THEN "Data<T>" ELSE "Data<U>"

\* C14: the user-data store holds at most one value per type. Extracting
\* Data<ty> from a HandlerData built on the store yields the value of the
\* most recent add_data call for ty, whatever was added for other types
\* before or after, and is absent if none was made; the store a task
\* extracts from is the store as registered; and an entry that declares
\* Data<T> and that handle reaches with all filters matching is invoked if
\* a T was added and passed over if none was.
C14_LastAddedValuePerType ==
    /\ \A ty \in DataTypes, m \in Messages :
            from_data(DataParam(ty), HandlerData(m, data)) = last_data[ty]
    /\ \A t \in 1..Len(tasks) :
            LET task == tasks[t]
                entries == task.handlers.handlers
            IN HasRouted(task) =>
                /\ task.hd[1].data = last_data
                /\ \A i \in 1..Len(entries) :
                        (/\ entries[i].handler = data_handler
                         /\ Reached(task, i)
                         /\ FiltersMatch(task, i)) =>
                            (CallHandler(i) \in Logged(task)) = (last_data["T"] # None)

\* C14 witness: add_data was called for T more than once or for U as well,
\* leaving "v2" as the last T and "v1" as the last U; the `data` entry was
\* invoked and finished.
C14_Witness ==
    \E t \in 1..Len(tasks) :
        /\ last_data = [ty \in DataTypes |-> IF ty = "T" THEN Some("v2") ELSE Some("v1")]
        /\ HasRouted(tasks[t])
        /\ tasks[t].pc = "done"
        /\ tasks[t].idx > 0
        /\ tasks[t].handlers.handlers[tasks[t].idx].handler = data_handler
        /\ from_data("Data<T>", tasks[t].hd[1]) = Some("v2")

\* C14, the absent case, reached too: only a U was added, the `data` entry
\* matched the message and was passed over for the message fallback.
C14_WitnessAbsent ==
    \E t \in 1..Len(tasks) :
        /\ last_data["T"] = None /\ last_data["U"] # None
        /\ HasRouted(tasks[t])
        /\ Len(tasks[t].handlers.handlers) = 1
        /\ tasks[t].handlers.handlers[1].handler = data_handler
        /\ CallExtract(1) \in Logged(tasks[t])
        /\ Invoked(tasks[t]) = << CallMessageFallback >>

\* C15: a handler's parameter tuple extracts if and only if every member
\* type extracts from the same HandlerData, and then holds the members'
\* values in order; one absent member makes the tuple absent; the empty
\* tuple always extracts. So the one entry of the table, which has no
\* filter, is invoked exactly when every parameter it declares extracts.
C15_TupleExtractsIffEveryMember ==
    \A t \in 1..Len(tasks) :
        LET task == tasks[t]
        IN HasRouted(task) =>
            \A i \in 1..Len(task.handlers.handlers) :
                LET sig == task.handlers.handlers[i].handler.sig
                    every == \A k \in 1..Len(sig) : from_data(sig[k], task.hd[1]) # None
                    tuple == from_data_tuple(sig, task.hd[1])
                IN /\ Len(sig) <= MaxParams
                   /\ (tuple # None) = every
                   /\ sig = << >> => tuple = Some(<< >>)
                   /\ every => /\ Len(tuple[1]) = Len(sig)
                               /\ \A k \in 1..Len(sig) :
                                     from_data(sig[k], task.hd[1]) = Some(tuple[1][k])
                   /\ (Reached(task, i) /\ FiltersMatch(task, i)) =>
                        (CallHandler(i) \in Logged(task)) = every

\* C15 witness: a handler of eight parameters of which only the last is
\* absent (a Sticker, for a message without one) was passed over.
C15_Witness ==
    \E t \in 1..Len(tasks) :
        LET task == tasks[t]
        IN /\ HasRouted(task)
           /\ task.pc = "done"
           /\ task.handlers.handlers[1].handler.sig =
                [k \in 1..MaxParams |-> IF k = MaxParams THEN "Sticker" ELSE "Message"]
           /\ task.update.message[1].media = "none"
           /\ CallExtract(1) \in Logged(task)
           /\ Invoked(task) = << CallMessageFallback >>

\* C15, the composite that extracts, reached too: eight parameters, all
\* present, and the empty signature.
C15_WitnessAllPresent ==
    \E t \in 1..Len(tasks) :
        /\ HasRouted(tasks[t])
        /\ Len(tasks[t].handlers.handlers[1].handler.sig) = MaxParams
        /\ "Sticker" \in { tasks[t].handlers.handlers[1].handler.sig[k] : k \in 1..MaxParams }
        /\ Invoked(tasks[t]) = << CallHandler(1) >>

C15_WitnessNoParams ==
    \E t \in 1..Len(tasks) :
        /\ HasRouted(tasks[t])
        /\ tasks[t].handlers.handlers[1].handler.sig = << >>
        /\ Invoked(tasks[t]) = << CallHandler(1) >>

\* C16: when dispatch of an event fails, the error handler is called with
\* the error, a client handle and the update whose dispatch failed.
C16_ErrorHandlerGetsUpdate ==
    \A t \in 1..Len(tasks) :
        \A n \in 1..Len(tasks[t].log) :
            LET c == tasks[t].log[n]
            IN c.call = "error" =>
                /\ Len(c.args) = 3
                /\ c.args[1] = tasks[t].result[1]
                /\ c.args[2] = "client"
                /\ c.args[3] = tasks[t].update

\* What the call in the spawned task does hand over: the error and a client.
C16_ErrorHandlerGetsErrorAndClient ==
    \A t \in 1..Len(tasks) :
        \A n \in 1..Len(tasks[t].log) :
            LET c == tasks[t].log[n]
            IN c.call = "error" =>
                /\ tasks[t].result # None
                /\ c.args = << tasks[t].result[1], "client" >>

\* C17: RawArgs::parse_n(s, 0) returns no tokens and s itself as the rest,
\* for every input string s.
C17_ParseZeroReturnsInput ==
    (output.fn = "parse_n" /\ count = 0) =>
        output.val = [args |-> << >>, rest |-> input]

\* C17 witness: parse_n was applied with count 0 to the string of
\* test_parse_n, which holds tokens and runs of spaces.
C17_Witness ==
    /\ output.fn = "parse_n"
    /\ count = 0
    /\ input = TestInput
    /\ output.val.rest = TestInput

\* The tokens of a string as the claims about parse_n count them: the
\* maximal runs of characters other than the delimiter space, each given
\* by its first and last position.
Tokens(str) ==
    { p \in (1..Len(str)) \X (1..Len(str)) :
        /\ p[1] <= p[2]
        /\ \A i \in p[1]..p[2] : str[i] # " "
        /\ p[1] = 1 \/ str[p[1] - 1] = " "
        /\ p[2] = Len(str) \/ str[p[2] + 1] = " " }

\* The k-th token from the left.
Token(str, k) ==
    CHOOSE p \in Tokens(str) : Cardinality({ q \in Tokens(str) : q[1] < p[1] }) = k - 1

TokenText(str, k) == SubSeq(str, Token(str, k)[1], Token(str, k)[2])

\* C18: for n >= 1, parse_n(s, n) never returns more than n tokens. When s
\* holds at least n tokens and a delimiter space follows the n-th, the
\* tokens returned are the first n of s in order and rest is the suffix of
\* s that starts right after that one space, further spaces kept. When s
\* holds fewer than n tokens, all of them are returned and rest is empty.
\* Returned tokens are compared with those of s after trimming both: what
\* trimming a token gets is not this claim's matter. The two cases of
\* test_parse_n are part of the statement.
C18_FirstTokensAndUntouchedRest ==
    (output.fn = "parse_n" /\ count >= 1) =>
        LET args == output.val.args
            rest == output.val.rest
            all == Cardinality(Tokens(input))
        IN /\ Len(args) <= count
           /\ (all >= count /\ Token(input, count)[2] < Len(input)) =>
                /\ Len(args) = count
                /\ \A k \in 1..count : Trim(args[k]) = Trim(TokenText(input, k))
                /\ rest = SubSeq(input, Token(input, count)[2] + 2, Len(input))
           /\ all < count =>
                /\ Len(args) = all
                /\ \A k \in 1..all : Trim(args[k]) = Trim(TokenText(input, k))
                /\ rest = << >>
           /\ (input = TestInput /\ count = 1) =>
                /\ args = << << "a", "a", "a" >> >>
                /\ rest = SubSeq(TestInput, 5, 20)
           /\ (input = TestInput /\ count = 2) =>
                /\ args = << << "a", "a", "a" >>, << "b", "b", "b" >> >>
                /\ rest = SubSeq(TestInput, 10, 20)

\* C18 witness: one token was asked of a string that holds a tab and
\* several tokens, with two spaces after the first: rest starts with the
\* second of them.
C18_Witness ==
    /\ output.fn = "parse_n"
    /\ count = 1
    /\ input # TestInput
    /\ \E i \in 1..Len(input) : input[i] = "\t"
    /\ Cardinality(Tokens(input)) >= 2
    /\ Len(output.val.args) = 1
    /\ Len(output.val.rest) >= 2
    /\ output.val.rest[1] = " "

\* C18, the other case, reached too: three tokens asked of a string of two.
C18_WitnessFewer ==
    /\ output.fn = "parse_n"
    /\ count = 3
    /\ Cardinality(Tokens(input)) = 2
    /\ Len(output.val.args) = 2
    /\ output.val.rest = << >>

\* The token list RawArgs::parse_arg returns for the input.
ParseArgTokens == RawArgs_parse_arg(input).val[1]

\* A token list with every token trimmed and those that trim to nothing
\* dropped.
TrimmedNonEmpty(args) ==
    LET Kept(arg) == Trim(arg) # << >>
        kept == SelectSeq(args, Kept)
    IN [k \in 1..Len(kept) |-> Trim(kept[k])]

\* C19 as stated: for every n >= token_count(s), parse_n(s, n) yields an
\* empty rest and the token list of RawArgs::parse_arg(s).
C19_ParseAllEqualsParseArg ==
    (output.fn = "parse_n" /\ count >= Len(ParseArgTokens)) =>
        /\ output.val.rest = << >>
        /\ output.val.args = ParseArgTokens

\* n is beyond the tokens of s, or exactly their number with at most the
\* one delimiter space after the last of them.
C19_AsksForAll ==
    LET all == Cardinality(Tokens(input))
    IN \/ count > all
       \/ count = all /\ all >= 1 /\ Token(input, all)[2] >= Len(input) - 1

\* C19 amended: when n is greater than the number of tokens of s, or equal
\* to it with at most one space after the last token, parse_n(s, n) yields
\* an empty rest and one token per token of s, in order, and that list,
\* trimmed and without the tokens that trim to nothing, is the list
\* RawArgs::parse_arg(s) returns; the two lists are identical whenever s
\* holds no whitespace other than spaces.
C19_ParseAllMatchesParseArg ==
    (output.fn = "parse_n" /\ C19_AsksForAll) =>
        /\ output.val.rest = << >>
        /\ Len(output.val.args) = Cardinality(Tokens(input))
        /\ TrimmedNonEmpty(output.val.args) = ParseArgTokens
        /\ (\A i \in 1..Len(input) : IsWhitespace(input[i]) => input[i] = " ")
                => output.val.args = ParseArgTokens

\* C19 witness: three tokens were asked of a string of two tokens with two
\* spaces between them: both came back, as parse_arg returns them.
C19_Witness ==
    /\ output.fn = "parse_n"
    /\ count = 3
    /\ Cardinality(Tokens(input)) = 2
    /\ \E i \in 1..(Len(input) - 1) : input[i] = " " /\ input[i + 1] = " "
    /\ output.val.rest = << >>
    /\ output.val.args = ParseArgTokens
    /\ Len(ParseArgTokens) = 2

\* C19, where the lists differ, reached too: the last token ends in a tab,
\* which parse_n keeps and parse_arg trims.
C19_WitnessUntrimmed ==
    /\ output.fn = "parse_n"
    /\ C19_AsksForAll
    /\ output.val.args # ParseArgTokens
    /\ TrimmedNonEmpty(output.val.args) = ParseArgTokens
    /\ Len(ParseArgTokens) = 2

\* C20: for a derived struct of k fields whose last field is #[rest],
\* parse_arg splits with parse_n(input, k - 1). With fewer than k - 1
\* tokens it fails with Parse(input); otherwise it succeeds exactly when
\* each of the first k - 1 fields parses from the token at its position
\* and the last from the whole rest, yields those values in order, and
\* fails with a Parse error if one of them does not parse. RepeatArgs
\* (u32, #[rest] String) parsed from "5 hello world" is (5, "hello world").
C20_RestStructParsesTokensThenRest ==
    (output.fn = "parse_arg" /\ output.ty.rest) =>
        LET fields == output.ty.fields
            k == Len(fields)
            parsed == parse_n(input, k - 1)
            result == output.val
            Field(i) == IF i = k THEN parse_arg(fields[i], parsed.rest)
                        ELSE parse_arg(fields[i], parsed.args[i])
        IN /\ Len(parsed.args) = k - 1 \/ Cardinality(Tokens(input)) < k - 1
           /\ Cardinality(Tokens(input)) < k - 1 =>
                (~result.ok /\ result.err = << input, "None" >>)
           /\ Cardinality(Tokens(input)) >= k - 1 =>
                /\ result.ok = \A i \in 1..k : Field(i).ok
                /\ result.ok =>
                        /\ Len(result.val[1]) = k
                        /\ \A i \in 1..k : Field(i).val[1] = result.val[1][i]
                /\ ~result.ok =>
                        \E i \in 1..k : ~Field(i).ok /\ result.err = Field(i).err
           /\ (output.ty = RepeatArgs /\ input = RepeatInput) =>
                /\ result.ok
                /\ result.val[1] = << << "5" >>, SubSeq(RepeatInput, 3, 13) >>

\* C20 witness: RepeatArgs was parsed from "5 hello world".
C20_Witness ==
    /\ output.fn = "parse_arg"
    /\ output.ty = RepeatArgs
    /\ input = RepeatInput
    /\ output.val.ok

\* C20, the failures, reached too: a struct that needs two tokens got one,
\* and one whose first field is a u32 got a token that is none.
C20_WitnessTooFew ==
    /\ output.fn = "parse_arg"
    /\ output.ty = Triple
    /\ Cardinality(Tokens(input)) = 1
    /\ output.val.err = << input, "None" >>

C20_WitnessFieldFails ==
    /\ output.fn = "parse_arg"
    /\ output.ty = Triple
    /\ Cardinality(Tokens(input)) = 3
    /\ ~output.val.ok
    /\ Len(output.val.err) = 2
    /\ output.val.err[2] = "Some"

\* The part of the input the loop of parse_n(input, n) consumed when it
\* stopped at its break, n arguments pushed and the delimiter of the last
\* one read: the leftover text starts right after it.
Consumed(str, n) ==
    LET end == parse_n_loop(str, n, 1, << >>, << >>)
    IN IF n > 0 /\ Len(end.args) = n THEN Some(SubSeq(str, 1, end.next - 1)) ELSE None

\* Texts that may follow the consumed part.
Leftovers == UNION { [1..k -> Chars] : k \in 0..2 }

C21_WitnessTooFew ==
    /\ output.fn = "parse_arg"
    /\ output.ty = Pair
    /\ Cardinality(Tokens(input)) = 1
    /\ output.val.err = << input, "None" >>

C21_WitnessFieldFails ==
    /\ output.fn = "parse_arg"
    /\ output.ty = Pair
    /\ Cardinality(Tokens(input)) >= 2
    /\ ~output.val.ok
    /\ Len(output.val.err) = 2
    /\ output.val.err[2] = "Some"

\* Two strings are equal up to the case of their letters.
EqualIgnoringCase(a, b) ==
    /\ Len(a) = Len(b)
    /\ \A i \in 1..Len(a) :
            \/ a[i] = b[i]
            \/ \E n \in 1..Len(Uppercase) :
                    { a[i], b[i] } = { Uppercase[n], Lowercase[n] }

\* C22: a derived enum of unit variants parses its input to the first
\* variant, in declaration order, whose name equals the input, up to case
\* when the enum is #[ignore_case] and exactly when it is not; an input
\* that equals no variant name fails with Parse(input, None). So the
\* #[ignore_case] Action parses "play", "PLAY" and "Play" to Play, and the
\* same enum without the attribute only "Play".
C22_EnumParsesToFirstEqualVariant ==
    output.fn = "enum parse_arg" =>
        LET enum == output.ty
            Equal(name) == IF enum.ignore_case THEN EqualIgnoringCase(name, input)
                           ELSE name = input
            matching == { i \in 1..Len(enum.variants) : Equal(enum.variants[i]) }
            result == output.val
        IN /\ matching = { } => (~result.ok /\ result.err = << input, "None" >>)
           /\ matching # { } => (result.ok /\ result.val = Some(enum.variants[Min(matching)]))
           /\ (enum = Action /\ EqualIgnoringCase(input, Play)) => result.val = Some(Play)
           /\ (enum = ActionExact /\ input # Play) => ~result.ok

\* C22 witness: the #[ignore_case] Action parsed "PLAY" to Play.
C22_Witness ==
    /\ output.fn = "enum parse_arg"
    /\ output.ty = Action
    /\ input = << "P", "L", "A", "Y" >>
    /\ output.val = ResultOk(Play)

\* C22, the other cases, reached too: without the attribute "play" fails;
\* of two variants that equal the input up to case the first one is taken.
C22_WitnessExact ==
    /\ output.fn = "enum parse_arg"
    /\ output.ty = ActionExact
    /\ input = << "p", "l", "a", "y" >>
    /\ output.val = ParseErr(input, "None")

C22_WitnessFirstWins ==
    /\ output.fn = "enum parse_arg"
    /\ output.ty = Volume
    /\ input = << "u", "p" >>
    /\ output.val = ResultOk(<< "U", "p" >>)

\* The parameter types bound from the argument text of the message.
ArgTypes == { "RawArgs", "Args<Name>", "Args<RepeatArgs>", "Args<Numbers>", "Args<Echo>" }

NoWhitespace(text) == \A i \in 1..Len(text) : ~IsWhitespace(text[i])

\* What the typed binder of a parameter type yields for an argument text.
Bound(ty, text) ==
    LET parsed == IF ty = "RawArgs" THEN RawArgs_parse_arg(text)
                  ELSE derive_parse_arg(ArgsTarget(ty), text)
    IN IF parsed.ok THEN Some(parsed.val[1]) ELSE None

\* The entries of a task's table that handle reached with their filters
\* matching: the ones whose parameters it tried to extract.
Tried(task) ==
    { i \in 1..Len(task.handlers.handlers) : Reached(task, i) /\ FiltersMatch(task, i) }

\* C23: when the message text holds no whitespace, every argument
\* parameter, Args<A> as RawArgs, is bound from the empty argument text;
\* so an entry whose target parses from the empty text is extracted and
\* its handler is invoked.
C23_NoWhitespaceBindsEmptyText ==
    \A t \in 1..Len(tasks) :
        LET task == tasks[t]
        IN (HasRouted(task) /\ NoWhitespace(task.hd[1].message.text)) =>
            \A i \in Tried(task) :
                LET sig == task.handlers.handlers[i].handler.sig
                    args == { k \in 1..Len(sig) : sig[k] \in ArgTypes }
                IN /\ \A k \in args : from_data(sig[k], task.hd[1]) = Bound(sig[k], << >>)
                   /\ (\A k \in args : IsSome(Bound(sig[k], << >>))) =>
                            CallHandler(i) \in Logged(task)

\* What the code does instead: without a space in the text an Args<A>
\* parameter is absent whatever A is, so its entry is not invoked, and
\* only RawArgs is bound, to no arguments.
C23_ArgsAbsentWithoutSpace ==
    \A t \in 1..Len(tasks) :
        LET task == tasks[t]
        IN (HasRouted(task) /\ find(task.hd[1].message.text) = None) =>
            \A i \in Tried(task) :
                LET sig == task.handlers.handlers[i].handler.sig
                IN \A k \in 1..Len(sig) :
                        /\ sig[k] = "RawArgs" =>
                                from_data(sig[k], task.hd[1]) = Some(<< >>)
                        /\ sig[k] \in ArgTypes \ { "RawArgs" } =>
                                /\ from_data(sig[k], task.hd[1]) = None
                                /\ CallHandler(i) \notin Logged(task)

\* The argument text of a message text that holds a space: from the first
\* space on, as `&data.text[i..]` slices it.
ArgumentText(text) == SubSeq(text, find(text)[1], Len(text))

\* Entry i of the task's table takes an Args<A> that does not parse from
\* the argument text of the task's message.
ArgsParseFails(task, i) ==
    LET sig == task.handlers.handlers[i].handler.sig
        text == task.hd[1].message.text
    IN /\ IsSome(find(text))
       /\ \E k \in 1..Len(sig) :
            /\ sig[k] \in ArgTypes \ { "RawArgs" }
            /\ ~derive_parse_arg(ArgsTarget(sig[k]), ArgumentText(text)).ok

\* C24: an Args<A> that fails to parse is an absent extraction, never an
\* error. The entry is tried and skipped, the handler loop goes on to the
\* first later entry that matches and extracts, or else to the message
\* fallback; the task's result is what the function invoked returned, and
\* the error handler is called only with an error that function returned.
C24_ArgsParseFailureFallsThrough ==
    \A t \in 1..Len(tasks) :
        LET task == tasks[t]
        IN HasRouted(task) =>
            \A i \in Tried(task) :
                ArgsParseFails(task, i) =>
                    LET later == { j \in Eligible(task) : j > i }
                    IN /\ ~ParamsExtract(task, task.handlers.handlers[i].handler)
                       /\ CallExtract(i) \in Logged(task)
                       /\ CallHandler(i) \notin Logged(task)
                       /\ later # { } => Invoked(task) = << CallHandler(Min(later)) >>
                       /\ later = { } => Invoked(task) = << CallMessageFallback >>
                       /\ \A c \in Logged(task) :
                            c.call = "error" =>
                                /\ c.err = HandlerErr
                                /\ \E r \in Logged(task) :
                                        /\ r.call \in { "handler.ret", "message_fallback.ret" }
                                        /\ r.err = HandlerErr

\* C24 witness: hi(Message, Args<Name>) is registered before
\* any_args(Message, RawArgs); for the text "c " Name does not parse, hi is
\* skipped and any_args is invoked.
C24_Witness ==
    /\ Len(tasks) = 1
    /\ HasRouted(tasks[1])
    /\ Len(tasks[1].handlers.handlers) = 2
    /\ tasks[1].handlers.handlers[1].handler = hi
    /\ tasks[1].handlers.handlers[2].handler = any_args
    /\ tasks[1].hd[1].message.text = << "c", " " >>
    /\ ArgsParseFails(tasks[1], 1)
    /\ CallHandler(2) \in Logged(tasks[1])

\* C24, the fallback, reached too: the only entry takes Args<RepeatArgs>,
\* the text "c a" holds no u32, and the message fallback has returned Ok.
C24_WitnessFallback ==
    /\ Len(tasks) = 1
    /\ tasks[1].pc = "done"
    /\ Len(tasks[1].handlers.handlers) = 1
    /\ tasks[1].handlers.handlers[1].handler = repeat
    /\ tasks[1].hd[1].message.text = << "c", " ", "a" >>
    /\ ArgsParseFails(tasks[1], 1)
    /\ Invoked(tasks[1]) = << CallMessageFallback >>
    /\ tasks[1].result = Some(Ok)

\* C25: once handle has invoked an entry's handler, that entry decides the
\* outcome. It stays the only function invoked for the event, no entry
\* after it is tried, its future resolves at most once, and what it
\* resolves to, Ok or Err, is the value handle returns.
C25_InvokedHandlerDecidesOutcome ==
    \A t \in 1..Len(tasks) :
        LET task == tasks[t]
        IN \A i \in 1..Len(task.handlers.handlers) :
            CallHandler(i) \in Logged(task) =>
                /\ Invoked(task) = << CallHandler(i) >>
                /\ \A c \in Logged(task) :
                        c.call \in { "filter", "extract", "handler" } => c.idx <= i
                /\ Len(CallsOf(task, { "handler.ret" })) <= 1
                /\ task.pc = "handler" => task.result = None
                /\ task.pc # "handler" =>
                        \E r \in HandlerOutcomes :
                            /\ CallsOf(task, { "handler.ret" }) = << Ret("handler", i, r) >>
                            /\ task.result = Some(r)

\* C25 witness: the first entry's handler returned Err although a later
\* entry matches and extracts as well; the task has ended with that Err and
\* neither the later entry nor the message fallback was invoked.
C25_Witness ==
    /\ Len(tasks) = 1
    /\ tasks[1].pc = "done"
    /\ HasRouted(tasks[1])
    /\ Eligible(tasks[1]) = { 1, 2 }
    /\ tasks[1].handlers.handlers[1] # tasks[1].handlers.handlers[2]
    /\ Invoked(tasks[1]) = << CallHandler(1) >>
    /\ tasks[1].result = Some(HandlerErr)

\* Every Regex filter of the table compiles, as the table would apply it.
AllPatternsCompile(h) ==
    \A i \in 1..Len(h.handlers) :
        \A j \in 1..Len(h.handlers[i].filters) :
            ~unwrap_panics(h.handlers[i].filters[j], h.pattern_mutator)

\* C26: compiling a pattern never fails during dispatch: no dispatch task
\* ends in the panic of the unwrap in is_match, whatever entries
\* add_handler has accepted.
C26_RegexCompileNeverFails ==
    \A t \in 1..Len(tasks) : tasks[t].pc # "panicked"

\* C26, its reason as the claim gives it: every Regex filter of every
\* entry add_handler accepted is well-formed.
C26_RegistrationRejectsMalformed ==
    \A i \in 1..Len(handlers.handlers) :
        \A j \in 1..Len(handlers.handlers[i].filters) :
            LET filter == handlers.handlers[i].filters[j]
            IN filter.kind = "Regex" => RegexNewOk(filter.arg)

\* What the code ensures instead: a dispatch task panics only on a table
\* that holds a pattern which does not compile, and a table whose entries
\* all come from the handler attribute holds none.
C26_OnlyBuiltPatternsFail ==
    /\ \A t \in 1..Len(tasks) :
            tasks[t].pc = "panicked" => ~AllPatternsCompile(tasks[t].handlers)
    /\ (\A i \in 1..Len(handlers.handlers) : handlers.handlers[i] \in Registrable) =>
            AllPatternsCompile(handlers)

\* C27: a registered interceptor runs once for every NewMessage, inside
\* the dispatch task of that event: nothing runs before the task is polled,
\* the interceptor is the task's first call, made when the HandlerData has
\* been built from the event's message and the task's data, and it is
\* called once. It is not called for any other update, nor when none is
\* registered. Tasks are not polled in fetch order: any task not polled yet
\* can be polled, whatever the others have done.
C27_InterceptorOncePerMessageInTask ==
    \A t \in 1..Len(tasks) :
        LET task == tasks[t]
            calls == CallsOf(task, { "interceptor" })
        IN /\ task.pc = "spawned" => (task.log = << >> /\ ENABLED TaskHandle(t))
           /\ (task.update.kind # "NewMessage" \/ task.handlers.interceptor = None) =>
                calls = << >>
           /\ ( /\ task.update.kind = "NewMessage"
                /\ IsSome(task.handlers.interceptor)
                /\ task.pc # "spawned" ) =>
                    /\ calls = << CallInterceptor >>
                    /\ task.log[1] = CallInterceptor
                    /\ IsSome(task.hd)
                    /\ task.pc = "interceptor" =>
                            /\ task.log = << CallInterceptor >>
                            /\ task.hd[1] = HandlerData(task.update.message[1], task.data)

\* C27 witness: of two messages fetched, the second one's task has run the
\* interceptor and then a handler, to the end, while the first one's task
\* has not been polled yet.
C27_Witness ==
    /\ Len(tasks) = 2
    /\ tasks[1].update.kind = "NewMessage"
    /\ IsSome(tasks[1].handlers.interceptor)
    /\ tasks[1].pc = "spawned"
    /\ tasks[2].pc = "done"
    /\ CallsOf(tasks[2], { "interceptor", "handler" }) = << CallInterceptor, CallHandler(1) >>

\* C27, the other update kind, reached too: an update that is no message
\* went to the event fallback although an interceptor is registered.
C27_WitnessOther ==
    /\ Len(tasks) >= 1
    /\ tasks[1].update.kind # "NewMessage"
    /\ IsSome(tasks[1].handlers.interceptor)
    /\ tasks[1].pc = "done"
    /\ CallsOf(tasks[1], { "fallback" }) = << CallFallback >>

\* The HandlerData handle builds for a task, from the task's own update
\* and its own clone of the user data.
OwnContext(task) == HandlerData(task.update.message[1], task.data)

\* A step leaves every task but one as it is, and changes no task's
\* update, table or user data; the table and the store of the application
\* stay as they were when the loop was started.
C28_StepIsolated ==
    /\ handlers' = handlers
    /\ data' = data
    /\ \A t \in 1..Len(tasks) :
            /\ tasks'[t].update = tasks[t].update
            /\ tasks'[t].handlers = tasks[t].handlers
            /\ tasks'[t].data = tasks[t].data
            /\ tasks'[t] # tasks[t] =>
                    \A u \in 1..Len(tasks) : u # t => tasks'[u] = tasks[u]

\* Every task holds the table and the store of the application, and until
\* its own interceptor has returned, its HandlerData is the one built from
\* its own update; with no interceptor it stays that one.
C28_OwnClones ==
    \A t \in 1..Len(tasks) :
        LET task == tasks[t]
        IN /\ task.handlers = handlers
           /\ task.data = data
           /\ ( /\ IsSome(task.hd)
                /\ \/ task.pc = "interceptor"
                   \/ task.handlers.interceptor = None ) =>
                    task.hd[1] = OwnContext(task)

\* C28: every dispatch task works on its own HandlerData, built from the
\* clones made when its event was spawned. Only a task's own steps change
\* its HandlerData, so what the interceptor returns for one event is never
\* seen by the dispatch of another; and every task spawned by the loop
\* holds the same table and user-data store, those of the application when
\* the loop was started.
C28_ContextPerTask == []C28_OwnClones /\ [][C28_StepIsolated]_vars

\* C28 witness: the interceptor replaced the message of the first event,
\* and inserted user data for the second; each task went on with its own
\* HandlerData, and both have ended.
C28_Witness ==
    /\ Len(tasks) = 2
    /\ tasks[1].pc = "done"
    /\ tasks[2].pc = "done"
    /\ IsSome(tasks[1].hd)
    /\ IsSome(tasks[2].hd)
    /\ tasks[1].update = tasks[2].update
    /\ tasks[1].hd[1].message # tasks[1].update.message[1]
    /\ tasks[1].hd[1].data = tasks[1].data
    /\ tasks[2].hd[1].message = tasks[2].update.message[1]
    /\ tasks[2].hd[1].data # tasks[2].data

\* A string is trimmed: it neither starts nor ends with whitespace.
IsTrimmed(str) == str = << >> \/ (~IsWhitespace(str[1]) /\ ~IsWhitespace(str[Len(str)]))

\* C29: every token parse_n returns is non-empty and trimmed, whatever the
\* input and the count.
C29_TokensNonEmptyAndTrimmed ==
    output.fn = "parse_n" =>
        \A k \in 1..Len(output.val.args) :
            /\ output.val.args[k] # << >>
            /\ IsTrimmed(output.val.args[k])

\* What the code ensures instead: no token holds a space, every token
\* pushed inside the loop is trimmed, though it may be empty, and the
\* token pushed after the loop, the one that ends the input, is non-empty
\* and as it stands in the input.
C29_TokensHoldNoSpace ==
    (output.fn = "parse_n" /\ count > 0) =>
        LET args == output.val.args
            end == parse_n_loop(input, count, 1, << >>, << >>)
        IN /\ \A k \in 1..Len(args) : \A i \in 1..Len(args[k]) : args[k][i] # " "
           /\ \A k \in 1..Len(end.args) : IsTrimmed(args[k])
           /\ Len(args) > Len(end.args) =>
                /\ args[Len(args)] # << >>
                /\ args[Len(args)] = SubSeq(input, Len(input) - Len(args[Len(args)]) + 1, Len(input))

\* The index of the first whitespace character of a text, 0 without one.
FirstWhitespace(text) ==
    IF NoWhitespace(text) THEN 0
    ELSE CHOOSE i \in 1..Len(text) :
            /\ IsWhitespace(text[i])
            /\ \A k \in 1..(i - 1) : ~IsWhitespace(text[k])

\* The text strictly after the first whitespace character.
AfterFirstWhitespace(text) == SubSeq(text, FirstWhitespace(text) + 1, Len(text))

\* C30: for a message text that holds whitespace, the argument text handed
\* to the typed binder is the text strictly after the first whitespace
\* character: an invoked handler that takes Args<Echo>, Echo(#[rest]
\* String), receives exactly that text, "abc" for "cmd abc".
C30_ArgumentTextAfterSeparator ==
    \A t \in 1..Len(tasks) :
        LET task == tasks[t]
        IN \A i \in 1..Len(task.handlers.handlers) :
            ( /\ CallHandler(i) \in Logged(task)
              /\ task.handlers.handlers[i].handler = echo
              /\ ~NoWhitespace(task.hd[1].message.text) ) =>
                    from_data("Args<Echo>", task.hd[1])
                        = Some(<< AfterFirstWhitespace(task.hd[1].message.text) >>)

\* What the code does instead: the argument text starts at the first
\* space itself, so echo receives " abc" for "cmd abc"; and a text whose
\* only whitespace is tabs is given no argument text at all.
C30_ArgumentTextFromSeparator ==
    \A t \in 1..Len(tasks) :
        LET task == tasks[t]
            text == task.hd[1].message.text
        IN \A i \in 1..Len(task.handlers.handlers) :
            ( /\ HasRouted(task)
              /\ i \in Tried(task)
              /\ task.handlers.handlers[i].handler = echo ) =>
                    IF find(text) = None
                    THEN CallHandler(i) \notin Logged(task)
                    ELSE /\ CallHandler(i) \in Logged(task)
                         /\ from_data("Args<Echo>", task.hd[1]) = Some(<< ArgumentText(text) >>)
                         /\ ArgumentText(text)[1] = " "
                         /\ text = CmdAbc =>
                                ArgumentText(text) = << " ", "a", "b", "c" >>

\* The parameter types that take a derived enum directly, and the ones
\* that take it in a one-field struct.
DirectEnumArgs == { "Args<Action>", "Args<Volume>" }
WrappedEnumArgs == { "Args<ActionArgs>", "Args<VolumeArgs>" }

\* The enum behind a parameter type of either kind.
EnumOf(ty) == IF ty \in { "Args<Action>", "Args<ActionArgs>" } THEN Action ELSE Volume

\* The text names a variant of the enum after its command: it holds a
\* space, and the first word after the first space equals a variant name
\* up to case.
NamesVariant(enum, text) ==
    /\ IsSome(find(text))
    /\ Tokens(ArgumentText(text)) # { }
    /\ \E v \in 1..Len(enum.variants) :
            EqualIgnoringCase(TokenText(ArgumentText(text), 1), enum.variants[v])

\* C31: an #[ignore_case] enum that is itself the target of Args is
\* extracted from no message text, with or without a space, naming a
\* variant or not: the entry is tried and skipped and its handler is never
\* invoked. The same enum as the only field of a struct is extracted, and
\* the handler invoked, exactly when the text names a variant after the
\* command.
C31_DirectEnumNeverExtracted ==
    \A t \in 1..Len(tasks) :
        LET task == tasks[t]
        IN HasRouted(task) =>
            \A i \in Tried(task) :
                LET sig == task.handlers.handlers[i].handler.sig
                    text == task.hd[1].message.text
                IN \A k \in 1..Len(sig) :
                    /\ sig[k] \in DirectEnumArgs =>
                            /\ from_data(sig[k], task.hd[1]) = None
                            /\ CallExtract(i) \in Logged(task)
                            /\ CallHandler(i) \notin Logged(task)
                    /\ sig[k] \in WrappedEnumArgs =>
                            /\ IsSome(from_data(sig[k], task.hd[1]))
                                    <=> NamesVariant(EnumOf(sig[k]), text)
                            /\ CallHandler(i) \in Logged(task)
                                    <=> NamesVariant(EnumOf(sig[k]), text)

\* C31 witness: action_direct(Args<Action>) is registered before
\* action(Args<ActionArgs>); for the text "c play" the first is tried and
\* skipped and the second is invoked.
C31_Witness ==
    /\ Len(tasks) = 1
    /\ HasRouted(tasks[1])
    /\ Len(tasks[1].handlers.handlers) = 2
    /\ tasks[1].handlers.handlers[1].handler = action_direct
    /\ tasks[1].handlers.handlers[2].handler = action
    /\ tasks[1].hd[1].message.text = Command \o << " " >> \o to_lowercase(Play)
    /\ CallExtract(1) \in Logged(tasks[1])
    /\ Invoked(tasks[1]) = << CallHandler(2) >>

\* C31, alone in the table, reached too: the only entry takes Args<Volume>,
\* the text "c up" names a variant, and the message fallback is invoked.
C31_WitnessFallback ==
    /\ Len(tasks) = 1
    /\ HasRouted(tasks[1])
    /\ Len(tasks[1].handlers.handlers) = 1
    /\ tasks[1].handlers.handlers[1].handler = volume_direct
    /\ tasks[1].hd[1].message.text = << "c", " ", "u", "p" >>
    /\ NamesVariant(Volume, tasks[1].hd[1].message.text)
    /\ Invoked(tasks[1]) = << CallMessageFallback >>

\* The interceptor passed the task's message on in a HandlerData.
InterceptorPassed(task) ==
    /\ HasRouted(task)
    /\ Ret("interceptor", 0, Ok) \in Logged(task)

\* A filter of the task's table as C32 has it: a Pattern is matched
\* against the text of the event's message; a Predicate is called with
\* the event's message and the interceptor's HandlerData.
C32_FilterMatches(task, filter) ==
    LET event == task.update.message[1]
        context == task.hd[1]
    IN IF filter.kind = "Regex" THEN RegexIsMatch(filter.arg, event.text)
       ELSE CASE filter.arg[1] = "has_media" -> event.media # "none"
              [] filter.arg[1] = "data_has_media" -> context.message.media # "none"

\* A parameter as C32 has it: taken from the interceptor's HandlerData.
C32_Extracted(task, ty) ==
    LET context == task.hd[1]
    IN CASE ty = "Client" -> Some("client")
         [] ty = "Message" -> Some(context.message)
         [] ty = "Sticker" -> IF context.message.media = "sticker" THEN Some("sticker")
                              ELSE None
         [] ty = "Media" -> IF context.message.media = "none" THEN None
                            ELSE Some(context.message.media)

\* C32: after the interceptor returned a HandlerData, whatever message it
\* holds, every entry handle reaches is selected with Pattern filters
\* matched against the text of the event's own message and Predicate
\* filters given that message and the interceptor's HandlerData, and its
\* parameters are extracted from the interceptor's HandlerData; the handler
\* of the first entry selected whose parameters extract is invoked. So a
\* handler can be invoked for a message whose text its pattern does not
\* match.
C32_FiltersSeeEventMessage ==
    \A t \in 1..Len(tasks) :
        LET task == tasks[t]
        IN InterceptorPassed(task) =>
            \A i \in 1..Len(task.handlers.handlers) :
                LET entry == task.handlers.handlers[i]
                    selected == \A j \in 1..Len(entry.filters) :
                                    C32_FilterMatches(task, entry.filters[j])
                    extracts == \A k \in 1..Len(entry.handler.sig) :
                                    IsSome(C32_Extracted(task, entry.handler.sig[k]))
                IN Reached(task, i) =>
                    /\ CallExtract(i) \in Logged(task) <=> selected
                    /\ CallHandler(i) \in Logged(task) <=> (selected /\ extracts)
                    /\ \A k \in 1..Len(entry.handler.sig) :
                            from_data(entry.handler.sig[k], task.hd[1])
                                = C32_Extracted(task, entry.handler.sig[k])

\* C32 witness: the event's message is "x", the interceptor returned a
\* HandlerData whose message is "y", and ping, registered under the
\* pattern "x", was invoked with the message "y".
C32_Witness ==
    /\ Len(tasks) = 1
    /\ InterceptorPassed(tasks[1])
    /\ tasks[1].update.message[1] = Msg(TextX, "none")
    /\ tasks[1].hd[1].message = Msg(TextY, "none")
    /\ tasks[1].handlers.handlers[1] = HandlerWrap(<< FilterRegex(TextX) >>, ping)
    /\ ~RegexIsMatch(TextX, tasks[1].hd[1].message.text)
    /\ Invoked(tasks[1]) = << CallHandler(1) >>
    /\ from_data("Message", tasks[1].hd[1]) = Some(Msg(TextY, "none"))

\* C32, the other two cases, reached too: a predicate that reads its
\* HandlerData selects by the sticker the interceptor put in; an entry
\* selected by the event's text "y" extracts that sticker.
C32_WitnessPredicate ==
    /\ Len(tasks) = 1
    /\ InterceptorPassed(tasks[1])
    /\ tasks[1].update.message[1] = Msg(TextX, "none")
    /\ tasks[1].hd[1].message = Msg(TextSlashX, "sticker")
    /\ Len(tasks[1].handlers.handlers) = 2
    /\ tasks[1].handlers.handlers[1] = HandlerWrap(<< FilterFn("has_media") >>, ping)
    /\ tasks[1].handlers.handlers[2] = HandlerWrap(<< FilterFn("data_has_media") >>, ping)
    /\ Invoked(tasks[1]) = << CallHandler(2) >>

C32_WitnessExtraction ==
    /\ Len(tasks) = 1
    /\ InterceptorPassed(tasks[1])
    /\ tasks[1].update.message[1] = Msg(TextY, "none")
    /\ tasks[1].hd[1].message = Msg(TextSlashX, "sticker")
    /\ tasks[1].handlers.handlers[1] = HandlerWrap(<< FilterRegex(TextY) >>, with_sticker)
    /\ Invoked(tasks[1]) = << CallHandler(1) >>

\* The error handler of the task returned an error itself.
ErrorHandlerFailed(task) == Ret("error", task.idx, ErrorHandlerErr) \in Logged(task)

\* C33: when the error handler returned an error, that error was logged,
\* once, and nothing else was done with it: the error handler was called
\* once for the task, with the error handle returned and never with its
\* own; the task is over, with no step left to take; the event loop has
\* not ended because of it and can fetch again; and every task spawned
\* but not yet polled can still be dispatched.
C33_ErrorHandlerErrorOnlyLogged ==
    \A t \in 1..Len(tasks) :
        LET task == tasks[t]
        IN ErrorHandlerFailed(task) =>
            /\ task.log[Len(task.log)] = LogError(ErrorHandlerErr)
            /\ CallsOf(task, { "error!" }) = << LogError(ErrorHandlerErr) >>
            /\ Len(CallsOf(task, { "error" })) = 1
            /\ CallError(ErrorHandlerErr) \notin Logged(task)
            /\ CallsOf(task, { "error" }) = << CallError(task.result[1]) >>
            /\ task.result[1] # ErrorHandlerErr
            /\ task.pc = "done"
            /\ ~ENABLED TaskStep(t)
            /\ LoopEndedByFetchOnly
            /\ (loop = "top" /\ ncalls < MaxFetch) => ENABLED NextUpdate(MaxFetch)
            /\ \A u \in 1..Len(tasks) :
                    tasks[u].pc = "spawned" => ENABLED TaskHandle(u)

\* C33 witness: the first task's handler failed and its error handler
\* failed too; the update fetched next was dispatched to a handler that
\* returned Ok, and the loop is back at its top.
C33_Witness ==
    /\ Len(tasks) = 2
    /\ Ret("handler", 1, HandlerErr) \in Logged(tasks[1])
    /\ ErrorHandlerFailed(tasks[1])
    /\ tasks[1].pc = "done"
    /\ tasks[2].pc = "done"
    /\ tasks[2].result = Some(Ok)
    /\ CallsOf(tasks[2], { "handler" }) # << >>
    /\ loop = "top"

\* C33, an error of the interceptor, reached too: the error handler failed
\* on it and the error was logged.
C33_WitnessInterceptor ==
    /\ Len(tasks) >= 1
    /\ tasks[1].result = Some(InterceptorErr)
    /\ ErrorHandlerFailed(tasks[1])
    /\ tasks[1].log[Len(tasks[1].log)] = LogError(ErrorHandlerErr)

====
